---------------------------- MODULE Spec2Model ----------------------------
(***************************************************************************)
(* Model of the post-segmentation engine of Nuclei_Stardist_detection:     *)
(* the Fiji/Jython scripts NucleiInsideAOi.py, Positiv_negativ.py,         *)
(* positivearea_Positivnegativ.py, nuclei_stardist_sorted.py and the       *)
(* Python script nuclei_stardist_vscode.py.                                *)
(*                                                                         *)
(* Numbers.  Intensities, areas and thresholds are integers.  Scale        *)
(* factors and polygon coordinates are exact rationals <<n, d>> with d > 0 *)
(* (every value used is a dyadic rational, which IEEE floats represent     *)
(* exactly, so the products the code forms are the exact ones).  Means and *)
(* standard deviations are never formed as numbers: every comparison the   *)
(* code makes on them is decided by cross-multiplication.                  *)
(*                                                                         *)
(* The module holds several specifications over one set of variables; each *)
(* one leaves the variables of the other parts at their idle values.       *)
(***************************************************************************)
EXTENDS Integers, Sequences, FiniteSets, TLC

VARIABLES
    \* ---- Resolution rescaler (rescale_roi_to_original) ----
    roi_in,      \* the region handed to the first call
    roi,         \* the region returned by the latest call
    sx, sy,      \* scale factors of the first call, as <<n, d>>
    ncalls,      \* how many times the rescaler has been applied
    \* ---- Pixel iteration (roi_pixel_iter) ----
    ip,          \* the channel's processor: [null, W, H]
    iroi,        \* the region iterated: [null, b, mask]
    pixels,      \* the coordinates yielded, in the order of the loops
    iterated,    \* whether roi_pixel_iter has run to its end
    \* ---- Region filter ----
    pipeline,    \* which script runs: "NIA", "PAPN", "PN" or "VSC"
    config,      \* the thresholds of the run
    labels,      \* the detected regions: the label of every pixel (0 = none)
    dapi_img,    \* the reference channel: the intensity of every pixel
    fphase,      \* "detected", "filtered", "refilled" or "refiltered"
    kept,        \* the labels of the kept regions, in the order they were kept
    rejected,    \* the labels of the regions the filter has rejected
    rm,          \* the regions the ROI Manager holds
    filtered_labels,  \* the label image the filter has returned (VSC)
    refiltered_labels, \* what the filter returns when run on filtered_labels
    \* ---- Batch loop ----
    script,      \* which script runs: "NIA", "PAPN", "PN", "SO" or "VSC"
    files,       \* the image files of the folder, in the order of the loop
    fi,          \* the index of the file the loop is at
    si,          \* the index of the series the loop is at, within file fi
    pc,          \* "loop", "series", "done", "aborted", "exit1" or "idle"
    rows,        \* the rows appended to the counts (summary) file, in order
    grand_total, \* the running total of nuclei_stardist_sorted / _vscode
    handled,     \* the <<file, series>> units the loop has gone through
    \* ---- Working resolution of process_series ----
    mscript,     \* which script runs: "NIA" or "PAPN"
    SCALE_FACTOR,\* the configured scale factor, as <<n, d>>
    orig,        \* <<orig_w, orig_h>>: the size of the channels as read
    work,        \* <<work_w, work_h>>: the size of the image StarDist runs on
    roi_frame,   \* the size of the image whose coordinates the regions are in
    sphase,      \* "start", "scaled", "detected", "mapped", "filtered",
                 \* "aoi", "marker" or "idle"
    measured,    \* the measurements taken: [what, roi_frame, image]
    \* ---- Measuring one region on one channel ----
    m_script,    \* whose functions run: "NIA", "PAPN" or "PN"
    m_ip,        \* the channel's processor: [null, W, H, px]
    m_roi,       \* the region measured: [null, b, mask]
    m_op,        \* the measurement taken: "none", "area", "mean", "aoi",
                 \* "marker" or "idle"
    m_par,       \* the threshold and minimum fraction the measurement used
    m_out,       \* what the measurement returned
    \* ---- The marker loop of one series ----
    mk,          \* its inputs: [script, m_ip, aoi_mask_ip, thr, POS_FRAC,
                 \* AOI_ROI_MIN_FRAC, regions]
    mk_phase,    \* "morph", "loop", "done" or "idle"
    mk_ridx,     \* how many regions the loop has been through
    mk_acc,      \* the loop's counters and sums
    mk_detail,   \* the per-region rows written
    mk_summary,  \* the summary rows written
    \* ---- The morphology summary of one image or series ----
    mo,          \* its inputs: [script, regions], the regions kept
    mo_phase,    \* "start", "measured", "done" or "idle"
    mo_circ,     \* the circularity stored for each kept region
    mo_row,      \* the summary row written
    \* ---- Choosing the channels of one series ----
    ch,          \* its inputs: [script, windows, brightest]
    ch_phase,    \* "start", "picked", "done" or "idle"
    ch_sel,      \* the choice: [dapi, markers, aoi, skipped]
    ch_rows,     \* whether a measurement row was written for the series
    \* ---- One output file and the export calls on it ----
    csv_fn,      \* the function called: "export_csv", "export_intensity",
                 \* "export_counts" or "none"
    csv_exists,  \* whether the file exists
    csv_lines,   \* the lines of the file, in order
    csv_open,    \* how many writers were left open
    csv_calls,   \* the calls made: [row, raised]
    \* ---- The thresholds of the marker channels (Positiv_negativ.py) ----
    marker_fixed,   \* the threshold configured for each identifier, in order
    mt_windows,     \* the channel windows in the order they are enumerated:
                    \* for each, the identifiers its title contains
    mt_phase,       \* "start", "collected", "prepared" or "idle"
    mt_markers,     \* the windows taken as marker channels, in order
    marker_preps,   \* for each marker channel: [window, thr]
    \* ---- Preprocessing and thresholding one channel ----
    pp,             \* its inputs: [kind, APPLY_BG, MEDIAN_RADIUS,
                    \* ROLLING_REPEAT, thr, bits, hi, v, bg]
    pp_pc,          \* "start", "median", "rolling", "threshold", "done"
                    \* or "idle"
    pp_left,        \* the passes of the rolling loop still to run
    pp_img,         \* the duplicate: [value, bg, gray8]
    pp_ops,         \* the operations run on the duplicate, in order
    pp_fg,          \* whether the pixel is foreground (positive)
    \* ---- The images one process_series call opens and closes ----
    rel,            \* the call: [n, aoi, rois, processor, any_kept]
    rel_pc,         \* "start", "stardist", "background", "filter",
                    \* "cleanup", "returned" or "idle"
    series_wins,    \* the channel windows list_series_images returned
    rel_open,       \* the images that are open
    \* ---- A batch of series in positivearea_Positivnegativ.py ----
    ser,            \* the batch: [order, nch, fixed, SHOW_AT_END]
    ser_i,          \* the position of the next series, 0 when idle
    ser_open,       \* the open windows, in window order
    ser_fixed,      \* the list marker_fixed
    ser_rows,       \* per series done: [series, dapi, marker_rows]
    \* ---- The area accumulators of positv_area.py, for one file ----
    area_file,      \* the file: [series, T_FIXED, P_FIXED]
    area_i,         \* the position of the next series, 0 when idle
    well_total_area,
    well_pos_area,
    area_rows,      \* the per-series rows written
    well_rows,      \* the per-well rows written
    \* ---- intensity.py on one file, after a nuclei-counting run ----
    inten,          \* the file: [name, markers, counts, csv]
    inten_pc,       \* "load", "series", "done" or "idle"
    inten_i,        \* the position of the next series
    nuclei_counts_map,
    total_positive,
    total_integrated,
    total_nuclei,
    inten_rows,     \* the per-channel rows written
    inten_well,     \* the per-well (AllSeries) rows written
    \* ---- Two runs over one file, 'first' and 'second' half ----
    split,          \* [SPLIT_BY, n, runs]: the mode, the number of series
                    \* (frames, slices), the order of the two runs
    sp_run,         \* the position of the current run in split.runs
    sp_pc,          \* "select", "process", "done" or "idle"
    sp_sel,         \* the series still to process in the current run
    sp_processed    \* per run: the series (frames, slices) processed

rescaleVars == <<roi_in, roi, sx, sy, ncalls>>

iterVars == <<ip, iroi, pixels, iterated>>

filterVars == <<pipeline, config, labels, dapi_img, fphase, kept, rejected, rm,
                filtered_labels, refiltered_labels>>

batchVars == <<script, files, fi, si, pc, rows, grand_total, handled>>

scaleVars == <<mscript, SCALE_FACTOR, orig, work, roi_frame, sphase, measured>>

measureVars == <<m_script, m_ip, m_roi, m_op, m_par, m_out>>

markerVars == <<mk, mk_phase, mk_ridx, mk_acc, mk_detail, mk_summary>>

morphVars == <<mo, mo_phase, mo_circ, mo_row>>

channelVars == <<ch, ch_phase, ch_sel, ch_rows>>

csvVars == <<csv_fn, csv_exists, csv_lines, csv_open, csv_calls>>

thresholdVars == <<marker_fixed, mt_windows, mt_phase, mt_markers,
                   marker_preps>>

prepVars == <<pp, pp_pc, pp_left, pp_img, pp_ops, pp_fg>>

releaseVars == <<rel, rel_pc, series_wins, rel_open>>

seriesVars == <<ser, ser_i, ser_open, ser_fixed, ser_rows>>

areaVars == <<area_file, area_i, well_total_area, well_pos_area, area_rows, well_rows>>

intensityVars == <<inten, inten_pc, inten_i, nuclei_counts_map, total_positive, total_integrated, total_nuclei, inten_rows, inten_well>>

splitVars == <<split, sp_run, sp_pc, sp_sel, sp_processed>>

vars == <<rescaleVars, iterVars, filterVars, batchVars, scaleVars, measureVars,
          markerVars, morphVars, channelVars, csvVars,
          thresholdVars,
          prepVars,
          releaseVars,
          seriesVars,
          areaVars,
          intensityVars,
          splitVars>>

-----------------------------------------------------------------------------
(* Arithmetic helpers *)

Abs(n) == IF n < 0 THEN -n ELSE n

Max(a, b) == IF a >= b THEN a ELSE b

Min(a, b) == IF a <= b THEN a ELSE b

RECURSIVE GCD(_, _)
GCD(a, b) == IF b = 0 THEN a ELSE GCD(b, a % b)

\* A rational in lowest terms with a positive denominator.
Norm(q) ==
    LET g == GCD(Abs(q[1]), q[2])
    IN  IF q[1] = 0 THEN <<0, 1>> ELSE <<q[1] \div g, q[2] \div g>>

\* The product of two rationals.
Mul(p, q) == Norm(<<p[1] * q[1], p[2] * q[2]>>)

\* 1/s for a positive rational s.
Inv(s) == <<s[2], s[1]>>

\* Python 2 (Jython) round(): to the nearest integer, halves away from zero.
\* The argument is the rational n/d with d > 0.
PyRound(n, d) ==
    IF n >= 0 THEN (2 * n + d) \div (2 * d)
              ELSE -((2 * (-n) + d) \div (2 * d))

-----------------------------------------------------------------------------
(* Bounds of the rescaler's inputs *)

MaxPts == 2        \* polygon vertices per region: 0..MaxPts
MaxCoord == 2      \* integer coordinates range over -1..MaxCoord
MaxSide == 2       \* bounding-box width and height range over 0..MaxSide

\* Scale factors: s and 1/s for the working scales 0.5, 1.0, 2.0, and the
\* non-integral ratio 3/2 that orig_w / work_w produces (3 px against 2 px).
Scales == {<<1, 2>>, <<1, 1>>, <<2, 1>>, <<3, 2>>}

\* Vertex coordinates: halves of the integers of the range (sub-pixel).
Coords == {Norm(<<n, 2>>) : n \in (-2)..(2 * MaxCoord)}

\* The y coordinates take two values (the code treats x and y alike).
Points == Coords \X {<<0, 1>>, <<3, 2>>}

Polys == UNION {[1..n -> Points] : n \in 0..MaxPts}

Boxes == [x : (-1)..MaxCoord, y : {-1, 1}, width : 0..MaxSide, height : {0, 1, 3}]

NoRoi == [fp |-> <<>>, b |-> [x |-> 0, y |-> 0, width |-> 0, height |-> 0],
          type |-> "none"]

-----------------------------------------------------------------------------
(* rescale_roi_to_original(roi, sx, sy) *)

\* A mutant of the fallback: the clamp of the size is forgotten.
RescaleRectNoClamp(b, fx, fy) ==
    [x      |-> PyRound(b.x * fx[1], fx[2]),
     y      |-> PyRound(b.y * fy[1], fy[2]),
     width  |-> PyRound(b.width * fx[1], fx[2]),
     height |-> PyRound(b.height * fy[1], fy[2])]

\* The rectangle fallback: origin and size are scaled and rounded
\* separately, and the size is clamped to at least 1.
RescaleRect(b, fx, fy) ==
    [x      |-> PyRound(b.x * fx[1], fx[2]),
     y      |-> PyRound(b.y * fy[1], fy[2]),
     width  |-> Max(1, PyRound(b.width * fx[1], fx[2])),
     height |-> Max(1, PyRound(b.height * fy[1], fy[2]))]

\* A mutant of the polygon branch: the vertices are rounded to whole pixels,
\* as the rectangle fallback does with its corners.
RescalePolyRounded(fp, fx, fy) ==
    [i \in 1..Len(fp) |->
        <<<<PyRound(fp[i][1][1] * fx[1], fp[i][1][2] * fx[2]), 1>>,
          <<PyRound(fp[i][2][1] * fy[1], fp[i][2][2] * fy[2]), 1>>>>]

\* The polygon branch: every vertex is multiplied by (sx, sy); the count and
\* the order of the vertices are kept.
RescalePoly(fp, fx, fy) ==
    [i \in 1..Len(fp) |-> <<Mul(fp[i][1], fx), Mul(fp[i][2], fy)>>]

\* The bounds of a region are an input of the model for a rectangle; for the
\* PolygonRoi the function builds, the model keeps the bounds of the input
\* (the function never reads the bounds of a polygon).
rescale_roi_to_original(r, fx, fy) ==
    IF Len(r.fp) = 0
    THEN [fp |-> <<>>, b |-> RescaleRect(r.b, fx, fy), type |-> "RECTANGLE"]
    ELSE [fp |-> RescalePoly(r.fp, fx, fy), b |-> r.b, type |-> "POLYGON"]

-----------------------------------------------------------------------------
(* roi_pixel_iter(ip, roi) *)

MaxImg == 2        \* channel width and height range over 1..MaxImg
MaxBox == 2        \* width and height of a region's bounds: 0..MaxBox
PosOut == 1        \* how far left of / above the channel a region may start

NoMask == [present |-> FALSE, on |-> {}]

NullIp == [null |-> TRUE, W |-> 0, H |-> 0]

NullRoi == [null |-> TRUE,
            b |-> [x |-> 0, y |-> 0, width |-> 0, height |-> 0],
            mask |-> NoMask]

\* The local coordinates (xx, yy) of a bounding box, in the order of the
\* loops: yy outermost, xx innermost.
LocalCoords(b) ==
    [k \in 1..(b.width * b.height) |->
        <<(k - 1) % b.width, (k - 1) \div b.width>>]

\* rmask.get(xx, yy): the mask holds the set of its non-zero pixels.
MaskGet(mask, loc) == IF loc \in mask.on THEN 255 ELSE 0

\* A mutant of the loop body: the right and lower edges are tested with >
\* instead of >=.
YieldsOffByOne(p, r, loc) ==
    LET gx == r.b.x + loc[1]
        gy == r.b.y + loc[2]
    IN  /\ ~(gy < 0 \/ gy > p.H)
        /\ ~(gx < 0 \/ gx > p.W)
        /\ ~(r.mask.present /\ MaskGet(r.mask, loc) = 0)

\* Whether the loop body reaches its yield for the local coordinate loc.
Yields(p, r, loc) ==
    LET gx == r.b.x + loc[1]
        gy == r.b.y + loc[2]
    IN  /\ ~(gy < 0 \/ gy >= p.H)
        /\ ~(gx < 0 \/ gx >= p.W)
        /\ ~(r.mask.present /\ MaskGet(r.mask, loc) = 0)

\* The sequence of (gx, gy) the generator yields.
roi_pixel_iter(p, r) ==
    IF p.null \/ r.null THEN <<>>
    ELSE LET Test(loc) == Yields(p, r, loc)
             yielded == SelectSeq(LocalCoords(r.b), Test)
         IN  [i \in 1..Len(yielded) |-> <<r.b.x + yielded[i][1], r.b.y + yielded[i][2]>>]

-----------------------------------------------------------------------------
(* Region filter: statistics *)

MaxArea == 2       \* pixels per detected region and of background: 0..MaxArea

\* The intensities a pixel takes.
Intensities == {0, 3}

\* The labels StarDist assigns (0 is "no region").
Labels == {1, 2}

\* The indices of a flattened image.
Pixels(img) == 1..Len(img)

\* The pixels of the region with label k.
RegionOf(lab, k) == {i \in Pixels(lab) : lab[i] = k}

\* The labels present in a label image, ascending (regionprops, the ROI
\* Manager after StarDist).
RECURSIVE Ascending(_)
Ascending(S) ==
    IF S = {} THEN <<>>
    ELSE LET m == CHOOSE x \in S : \A y \in S : x <= y
         IN  <<m>> \o Ascending(S \ {m})

Detected(lab) == {lab[i] : i \in Pixels(lab)} \ {0}

Range(q) == {q[i] : i \in 1..Len(q)}

RECURSIVE SumOver(_, _)
SumOver(img, S) ==
    IF S = {} THEN 0
    ELSE LET i == CHOOSE x \in S : TRUE
         IN  img[i] + SumOver(img, S \ {i})

RECURSIVE SumSqOver(_, _)
SumSqOver(img, S) ==
    IF S = {} THEN 0
    ELSE LET i == CHOOSE x \in S : TRUE
         IN  img[i] * img[i] + SumSqOver(img, S \ {i})

\* Mean and standard deviation of the pixels S of img, kept as the count n,
\* the sum B and the sum of squares Q; ddof is 0 for numpy's np.std and 1
\* for ImageJ's ImageStatistics.stdDev.
StatsOver(img, S, ddof) ==
    [n |-> Cardinality(S), B |-> SumOver(img, S), Q |-> SumSqOver(img, S),
     ddof |-> ddof]

\* mean >= t for the mean sum/area of a region (0.0 for an empty region).
MeanGe(sum, area, t) == IF area > 0 THEN sum >= t * area ELSE 0 >= t

\* mean >= bg_mean + sigma * bg_sd, for sigma = sig[1]/sig[2] > 0 and the
\* background statistics st: with L = q(S n - B A) and D = n Q - B^2 the
\* test is L >= 0 and L^2 (n - ddof) >= p^2 A^2 D n.  ImageJ gives a
\* standard deviation of 0 for a single pixel.
MeanGeBg(sum, area, st, sig) ==
    LET S == IF area > 0 THEN sum ELSE 0
        A == IF area > 0 THEN area ELSE 1
        L == sig[2] * (S * st.n - st.B * A)
        D == st.n * st.Q - st.B * st.B
        m == st.n - st.ddof
    IN  IF m = 0 THEN L >= 0
        ELSE L >= 0 /\ L * L * m >= sig[1] * sig[1] * A * A * D * st.n

\* compute_background_stats(dapi_img, mask): over the pixels outside the
\* mask, or over the whole image when the mask covers it.
compute_background_stats(img, mask) ==
    LET background_pixels == Pixels(img) \ mask
    IN  IF background_pixels = {} THEN StatsOver(img, Pixels(img), 0)
        ELSE StatsOver(img, background_pixels, 0)

-----------------------------------------------------------------------------
(* Region filter: the four filters *)

Area(lab, k) == Cardinality(RegionOf(lab, k))

RegionSum(lab, img, k) == SumOver(img, RegionOf(lab, k))

\* The position of x in the sequence q.
IndexOf(q, x) == CHOOSE i \in 1..Len(q) : q[i] = x

\* area < size_min_eff or area > size_max_eff, for thresholds multiplied by
\* the rational area_scale.
size_rejects(area, cfg, area_scale) ==
    \/ area * area_scale[2] < cfg.size_min * area_scale[1]
    \/ area * area_scale[2] > cfg.size_max * area_scale[1]

\* A mutant of the loop body: the absolute-intensity test is skipped.
roi_passes_no_abs(area, sum, cfg, area_scale, st) ==
    IF size_rejects(area, cfg, area_scale) THEN FALSE
    ELSE IF cfg.sigma_above_bg[1] > 0
            /\ ~MeanGeBg(sum, area, st, cfg.sigma_above_bg) THEN FALSE
    ELSE TRUE

\* The body of the filter loop of NucleiInsideAOi.py and
\* positivearea_Positivnegativ.py: three tests, each one a "continue".
roi_passes(area, sum, cfg, area_scale, st) ==
    IF size_rejects(area, cfg, area_scale) THEN FALSE
    ELSE IF cfg.min_mean_intensity > 0
            /\ ~MeanGe(sum, area, cfg.min_mean_intensity) THEN FALSE
    ELSE IF cfg.sigma_above_bg[1] > 0
            /\ ~MeanGeBg(sum, area, st, cfg.sigma_above_bg) THEN FALSE
    ELSE TRUE

\* A mutant of the loop body of filter_labels_by_intensity: the sigma test
\* is applied even when sigma_above_bg <= 0.
region_passes_unguarded(area, sum, cfg, st) ==
    IF area < cfg.size_min \/ area > cfg.size_max THEN FALSE
    ELSE LET pass_abs == \/ cfg.min_mean_intensity <= 0
                         \/ MeanGe(sum, area, cfg.min_mean_intensity)
             pass_sigma == MeanGeBg(sum, area, st, cfg.sigma_above_bg)
         IN  pass_abs /\ pass_sigma

\* The body of the loop of filter_labels_by_intensity.
region_passes(area, sum, cfg, st) ==
    IF area < cfg.size_min \/ area > cfg.size_max THEN FALSE
    ELSE LET pass_abs == \/ cfg.min_mean_intensity <= 0
                         \/ MeanGe(sum, area, cfg.min_mean_intensity)
             pass_sigma == \/ cfg.sigma_above_bg[1] <= 0
                           \/ MeanGeBg(sum, area, st, cfg.sigma_above_bg)
         IN  pass_abs /\ pass_sigma

\* The body of the loop of Positiv_negativ.py: the intensity tests only.
marker_roi_passes(area, sum, cfg, st) ==
    LET pass_abs == \/ cfg.min_mean_intensity <= 0
                    \/ MeanGe(sum, area, cfg.min_mean_intensity)
        pass_sigma == \/ cfg.sigma_above_bg[1] <= 0
                      \/ MeanGeBg(sum, area, st, cfg.sigma_above_bg)
    IN  pass_abs /\ pass_sigma

\* area_scale of positivearea_Positivnegativ.py.
area_scale_of(cfg) ==
    IF cfg.scale_factor # <<1, 1>> THEN Mul(cfg.scale_factor, cfg.scale_factor)
    ELSE <<1, 1>>

\* What the ROI Manager holds when the filter loop starts: every region of
\* StarDist, or in Positiv_negativ.py the particles the analyzer lets
\* through (SIZE_MIN <= area <= SIZE_MAX).
rois_array_of(pl, lab, cfg) ==
    IF pl = "PN"
    THEN SelectSeq(Ascending(Detected(lab)),
                   LAMBDA k : /\ Area(lab, k) >= cfg.size_min
                              /\ Area(lab, k) <= cfg.size_max)
    ELSE Ascending(Detected(lab))

\* The background statistics each script computes before its loop.
bgstats_of(pl, lab, img, cfg) ==
    CASE pl = "VSC" -> compute_background_stats(img, {i \in Pixels(lab) : lab[i] > 0})
      [] pl = "PN"  ->
            LET rois == rois_array_of(pl, lab, cfg)
                combined == UNION {RegionOf(lab, rois[i]) : i \in 1..Len(rois)}
            IN  IF Len(rois) > 0 THEN StatsOver(img, Pixels(img) \ combined, 1)
                ELSE StatsOver(img, Pixels(img), 1)
      [] OTHER      -> StatsOver(img, Pixels(img), 1)

\* The labels the filter loop keeps, in the order of the loop.
kept_of(pl, lab, img, cfg) ==
    LET st == bgstats_of(pl, lab, img, cfg)
        rois == rois_array_of(pl, lab, cfg)
    IN  CASE pl = "VSC" ->
                SelectSeq(rois, LAMBDA k :
                    region_passes(Area(lab, k), RegionSum(lab, img, k), cfg, st))
          [] pl = "PN"  ->
                SelectSeq(rois, LAMBDA k :
                    marker_roi_passes(Area(lab, k), RegionSum(lab, img, k), cfg, st))
          [] pl = "PAPN" ->
                SelectSeq(rois, LAMBDA k :
                    roi_passes(Area(lab, k), RegionSum(lab, img, k), cfg,
                               area_scale_of(cfg), st))
          [] OTHER ->
                SelectSeq(rois, LAMBDA k :
                    roi_passes(Area(lab, k), RegionSum(lab, img, k), cfg,
                               <<1, 1>>, st))

\* filter_labels_by_intensity(labels, dapi_img, config): the kept regions,
\* relabelled 1, 2, ... in the order they were kept.
filter_labels_by_intensity(lab, img, cfg) ==
    LET keep == kept_of("VSC", lab, img, cfg)
    IN  [i \in Pixels(lab) |->
            IF lab[i] \in Range(keep) THEN IndexOf(keep, lab[i]) ELSE 0]

\* A mutant of the refill: the manager is not reset before the kept
\* regions are added.
refill_no_reset(manager, k) == manager \o k

\* rm.reset() followed by rm.addRoi(r) for every kept region.
refill(manager, k) == k

-----------------------------------------------------------------------------
(* Measuring one region on one channel: roi_area_pixels, roi_mean, the AOI
   overlap and the marker classification *)

\* ip.get(gx, gy): the processor holds its pixel values by coordinate.
Get(p, pt) == p.px[pt]

\* c = 0; for _ in seq: c += 1
RECURSIVE CountFrom(_, _)
CountFrom(c, seq) ==
    IF seq = <<>> THEN c ELSE CountFrom(c + 1, Tail(seq))

\* s = 0; for gx, gy in seq: s += ip.get(gx, gy)
RECURSIVE SumFrom(_, _, _)
SumFrom(acc, p, seq) ==
    IF seq = <<>> THEN acc
    ELSE SumFrom(acc + Get(p, Head(seq)), p, Tail(seq))

\* A mutant of roi_area_pixels: the area of the bounds instead of the count
\* of the pixels the iterator yields.
roi_area_of_bounds(p, r) ==
    IF r.null THEN 0 ELSE r.b.width * r.b.height

roi_area_pixels(p, r) == CountFrom(0, roi_pixel_iter(p, r))

\* A mutant of roi_mean: the sum is divided by the area of the bounds.
roi_mean_over_bounds(p, r) ==
    LET it == roi_pixel_iter(p, r)
        total == SumFrom(0, p, it)
        n == CountFrom(0, it)
    IN  IF n > 0 THEN Norm(<<total, r.b.width * r.b.height>>) ELSE <<0, 1>>

\* roi_mean returns float(s)/n, or 0.0 when the iterator yielded nothing.
roi_mean(p, r) ==
    LET it == roi_pixel_iter(p, r)
        total == SumFrom(0, p, it)
        n == CountFrom(0, it)
    IN  IF n > 0 THEN Norm(<<total, n>>) ELSE <<0, 1>>

\* float(a)/float(b) >= q for b > 0 and a fraction q = <<n, d>>, d > 0.
FracGe(a, b, q) == a * q[2] >= q[1] * b

\* A mutant of the foreground count: a pixel of value 0 counts as inside.
RECURSIVE CountInsideFromZero(_, _, _)
CountInsideFromZero(c, p, seq) ==
    IF seq = <<>> THEN c
    ELSE CountInsideFromZero(IF Get(p, Head(seq)) >= 0 THEN c + 1 ELSE c,
                             p, Tail(seq))

\* inside = 0; for gx, gy in seq: if aoi_mask_ip.get(gx, gy) > 0: inside += 1
RECURSIVE CountInside(_, _, _)
CountInside(c, p, seq) ==
    IF seq = <<>> THEN c
    ELSE CountInside(IF Get(p, Head(seq)) > 0 THEN c + 1 ELSE c,
                     p, Tail(seq))

\* A mutant of the AOI flag: a region of no pixel gets the fraction 0.0
\* compared with the minimum.
aoi_overlap_zero_fraction(aoi, r, minfrac) ==
    IF aoi.null
    THEN [inside |-> 0, allpix |-> 0, divided |-> FALSE, in_aoi |-> FALSE]
    ELSE LET it == roi_pixel_iter(aoi, r)
             allpix == CountFrom(0, it)
             inside == CountInside(0, aoi, it)
         IN  [inside |-> inside, allpix |-> allpix, divided |-> allpix > 0,
              in_aoi |-> IF allpix > 0 THEN FracGe(inside, allpix, minfrac)
                         ELSE FracGe(0, 1, minfrac)]

\* The AOI flag of one region.  in_aoi starts False; with an AOI mask the
\* region's pixels are counted (allpix) and those of them that are AOI
\* foreground (inside); the division is made only when allpix > 0.
aoi_overlap(aoi, r, minfrac) ==
    IF aoi.null
    THEN [inside |-> 0, allpix |-> 0, divided |-> FALSE, in_aoi |-> FALSE]
    ELSE LET it == roi_pixel_iter(aoi, r)
             allpix == CountFrom(0, it)
             inside == CountInside(0, aoi, it)
         IN  [inside |-> inside, allpix |-> allpix, divided |-> allpix > 0,
              in_aoi |-> allpix > 0 /\ FracGe(inside, allpix, minfrac)]

-----------------------------------------------------------------------------
(* The marker loop: classify_roi and the loop of Positiv_negativ.py, the
   marker loop of positivearea_Positivnegativ.py *)

AddQ(p, q) == Norm(<<p[1] * q[2] + q[1] * p[2], p[2] * q[2]>>)

\* (sum / n) if n > 0 else 0.0
MeanOrZero(sum, n) == IF n > 0 THEN Norm(<<sum[1], sum[2] * n>>) ELSE <<0, 1>>

\* A mutant of the percentage: the fraction, not multiplied by 100.
PercentAsFraction(pos, n) == IF n > 0 THEN Norm(<<pos, n>>) ELSE <<0, 1>>

\* (100.0 * pos / float(n)) if n > 0 else 0.0
Percent(pos, n) == IF n > 0 THEN Norm(<<100 * pos, n>>) ELSE <<0, 1>>

\* A mutant of the positive-pixel count: > thr instead of >= thr.
RECURSIVE CountAbove(_, _, _, _)
CountAbove(c, p, seq, thr) ==
    IF seq = <<>> THEN c
    ELSE CountAbove(IF Get(p, Head(seq)) > thr THEN c + 1 ELSE c,
                    p, Tail(seq), thr)

\* pospix = 0; for gx, gy in seq: if m_ip.get(gx, gy) >= thr: pospix += 1
RECURSIVE CountAtLeast(_, _, _, _)
CountAtLeast(c, p, seq, thr) ==
    IF seq = <<>> THEN c
    ELSE CountAtLeast(IF Get(p, Head(seq)) >= thr THEN c + 1 ELSE c,
                      p, Tail(seq), thr)

\* classify_roi of Positiv_negativ.py: (is_pos, total, pospix).
classify_roi(marker_ip, r, thr, min_pos_frac) ==
    LET it == roi_pixel_iter(marker_ip, r)
        total == CountFrom(0, it)
        pospix == CountAtLeast(0, marker_ip, it, thr)
    IN  IF total = 0
        THEN [is_pos |-> FALSE, total |-> 0, pospix |-> 0]
        ELSE [is_pos |-> FracGe(pospix, total, min_pos_frac),
              total |-> total, pospix |-> pospix]

\* A mutant of the loops' test on a region of no pixel: it never skips.
skips_never(n) == FALSE

\* if roi_px == 0: continue  /  if total == 0: continue
skips_region(n) == n = 0

\* Before the loop of Positiv_negativ.py.
StartAccPN == [pos_count |-> 0, neg_count |-> 0, total |-> 0]

\* One pass of the region loop of Positiv_negativ.py, for the region at
\* position ridx (from 1): the counters and the detail rows after it.
marker_body_PN(inp, a, det, ridx) ==
    LET c == classify_roi(inp.m_ip, inp.regions[ridx].reg, inp.thr, inp.POS_FRAC)
    IN  IF skips_region(c.total) THEN [acc |-> a, detail |-> det]
        ELSE [acc |-> [pos_count |-> IF c.is_pos THEN a.pos_count + 1
                                      ELSE a.pos_count,
                       neg_count |-> IF c.is_pos THEN a.neg_count
                                      ELSE a.neg_count + 1,
                       total |-> a.total + 1],
              detail |-> Append(det, [ROI_Index |-> ridx,
                                      ROI_px |-> c.total,
                                      PosPix |-> c.pospix,
                                      Is_Positive |-> c.is_pos])]

\* The counts row of Positiv_negativ.py.
counts_row_PN(a) ==
    [N_total |-> a.total, Positive |-> a.pos_count, Negative |-> a.neg_count,
     Percent_Positive |-> Percent(a.pos_count, a.total)]

\* Before the region loop of positivearea_Positivnegativ.py.
StartAccPAPN ==
    [pos_cnt |-> 0, neg_cnt |-> 0, pos_aoi |-> 0, neg_aoi |-> 0,
     n_all_m |-> 0, sum_all_m |-> <<0, 1>>, n_pos |-> 0, sum_pos |-> <<0, 1>>,
     n_in |-> 0, sum_in |-> <<0, 1>>, n_posin |-> 0, sum_posin |-> <<0, 1>>]

\* One pass of the region loop of positivearea_Positivnegativ.py.
marker_body_PAPN(inp, a, det, ridx) ==
    LET reg == inp.regions[ridx].reg
        cval == inp.regions[ridx].Circ
        it == roi_pixel_iter(inp.m_ip, reg)
        total == CountFrom(0, it)
        pospix == CountAtLeast(0, inp.m_ip, it, inp.thr)
        is_pos == FracGe(pospix, total, inp.POS_FRAC)
        in_aoi == aoi_overlap(inp.aoi_mask_ip, reg, inp.AOI_ROI_MIN_FRAC).in_aoi
        counted == ~cval.nan
    IN  IF skips_region(total) THEN [acc |-> a, detail |-> det]
        ELSE [acc |->
                 [pos_cnt |-> IF is_pos THEN a.pos_cnt + 1 ELSE a.pos_cnt,
                  neg_cnt |-> IF is_pos THEN a.neg_cnt ELSE a.neg_cnt + 1,
                  pos_aoi |-> IF in_aoi /\ is_pos THEN a.pos_aoi + 1
                              ELSE a.pos_aoi,
                  neg_aoi |-> IF in_aoi /\ ~is_pos THEN a.neg_aoi + 1
                              ELSE a.neg_aoi,
                  n_all_m |-> IF counted THEN a.n_all_m + 1 ELSE a.n_all_m,
                  sum_all_m |-> IF counted THEN AddQ(a.sum_all_m, cval.v)
                                ELSE a.sum_all_m,
                  n_pos |-> IF counted /\ is_pos THEN a.n_pos + 1 ELSE a.n_pos,
                  sum_pos |-> IF counted /\ is_pos THEN AddQ(a.sum_pos, cval.v)
                              ELSE a.sum_pos,
                  n_in |-> IF counted /\ in_aoi THEN a.n_in + 1 ELSE a.n_in,
                  sum_in |-> IF counted /\ in_aoi THEN AddQ(a.sum_in, cval.v)
                             ELSE a.sum_in,
                  n_posin |-> IF counted /\ in_aoi /\ is_pos
                              THEN a.n_posin + 1 ELSE a.n_posin,
                  sum_posin |-> IF counted /\ in_aoi /\ is_pos
                                THEN AddQ(a.sum_posin, cval.v)
                                ELSE a.sum_posin],
              detail |-> Append(det, [ROI_Index |-> ridx,
                                      ROI_px |-> total,
                                      PosPix |-> pospix,
                                      Is_Positive |-> is_pos,
                                      In_AOI |-> in_aoi,
                                      Circ |-> cval])]

\* The counts row and the per-marker morphology row of
\* positivearea_Positivnegativ.py.
counts_row_PAPN(a) ==
    [N_total |-> a.pos_cnt + a.neg_cnt, Positive |-> a.pos_cnt,
     Negative |-> a.neg_cnt,
     Percent_Positive |-> Percent(a.pos_cnt, a.pos_cnt + a.neg_cnt),
     Pos_in_AOI |-> a.pos_aoi, Neg_in_AOI |-> a.neg_aoi,
     Percent_Positive_in_AOI |-> Percent(a.pos_aoi, a.pos_aoi + a.neg_aoi)]

morph_row_PAPN(a) ==
    [N_ROIs |-> a.n_all_m, Mean_Circ |-> MeanOrZero(a.sum_all_m, a.n_all_m),
     N_Positive |-> a.n_pos,
     Mean_Circ_Positive |-> MeanOrZero(a.sum_pos, a.n_pos),
     N_In_AOI |-> a.n_in, Mean_Circ_In_AOI |-> MeanOrZero(a.sum_in, a.n_in),
     N_Positive_In_AOI |-> a.n_posin,
     Mean_Circ_Positive_In_AOI |-> MeanOrZero(a.sum_posin, a.n_posin)]

\* The marker-independent morphology summary of
\* positivearea_Positivnegativ.py: n_circ and sum_circ_all over the regions
\* whose circularity is not NaN.
RECURSIVE circ_sum_all(_, _, _)
circ_sum_all(n, sum, regions) ==
    IF regions = <<>> THEN [n_circ |-> n, sum_circ_all |-> sum]
    ELSE IF ~Head(regions).Circ.nan
         THEN circ_sum_all(n + 1, AddQ(sum, Head(regions).Circ.v), Tail(regions))
         ELSE circ_sum_all(n, sum, Tail(regions))

global_morph_row(regions) ==
    LET t == circ_sum_all(0, <<0, 1>>, regions)
    IN  [N_ROIs |-> t.n_circ, Mean_Circ |-> MeanOrZero(t.sum_circ_all, t.n_circ)]

-----------------------------------------------------------------------------
(* Circularity and its means: circ_from_roi and the summary row of
   NucleiInsideAOi.py, the properties and means of nuclei_stardist_vscode.py,
   mean_round of nuclei_stardist_sorted.py.  A circularity is kept in units
   of pi. *)

NaN == [nan |-> TRUE, v |-> <<0, 1>>]

Num(q) == [nan |-> FALSE, v |-> q]

\* circ_from_roi: NaN without a mask, NaN when the analyzer finds no
\* particle in the mask or raises, else the analyzer's "Circ." value.
circ_from_roi(reg) ==
    IF reg.mask = "none" THEN NaN
    ELSE IF reg.mask = "particle" THEN reg.Circ
    ELSE NaN

\* 4 * np.pi * area / (region.perimeter ** 2) if region.perimeter > 0 else 0
circularity(area, perimeter) ==
    IF perimeter > 0 THEN Num(Norm(<<4 * area, perimeter * perimeter>>))
    ELSE Num(<<0, 1>>)

\* sum(values): a NaN among the values makes the sum NaN.
RECURSIVE FloatSum(_)
FloatSum(values) ==
    IF values = <<>> THEN Num(<<0, 1>>)
    ELSE LET rest == FloatSum(Tail(values))
         IN  IF Head(values).nan \/ rest.nan THEN NaN
             ELSE Num(AddQ(Head(values).v, rest.v))

\* sum(values) / count for count > 0, else 0.0.
FloatMean(values) ==
    IF Len(values) > 0
    THEN LET t == FloatSum(values)
         IN  IF t.nan THEN NaN ELSE Num(MeanOrZero(t.v, Len(values)))
    ELSE Num(<<0, 1>>)

\* circ_vals: the values that are not NaN, in order.
NotNaN(c) == ~c.nan

circ_vals_of(values) == SelectSeq(values, NotNaN)

\* The circularity stored for a kept region, by script.
stored_circ(sc, reg) ==
    CASE sc = "NIA" -> circ_from_roi(reg)
      [] sc = "VSC" -> circularity(reg.area, reg.perimeter)
      [] OTHER      -> reg.Circ

\* The mean circularity written to the summary row, by script.
mean_circ_of(sc, values) ==
    IF sc = "NIA" THEN FloatMean(circ_vals_of(values))
    ELSE FloatMean(values)

-----------------------------------------------------------------------------
(* Choosing the channels of a series: pick_dapi_image, pick_dapi_from_list
   and the start of process_series.  A window is known by which of the
   configured patterns its title contains: [dapi, marker, aoi]; 0 stands
   for None. *)

\* The first window whose title contains one of the patterns, or 0.
FirstMatch(windows, field) ==
    LET hits == {i \in 1..Len(windows) : windows[i][field]}
    IN  IF hits = {} THEN 0 ELSE CHOOSE i \in hits : \A j \in hits : i <= j

\* pick_dapi_image of NucleiInsideAOi.py.
pick_dapi_image(candidates) ==
    IF FirstMatch(candidates, "dapi") # 0 THEN FirstMatch(candidates, "dapi")
    ELSE IF Len(candidates) > 0 THEN 1 ELSE 0

\* pick_dapi_image of positivearea_Positivnegativ.py and
\* pick_dapi_from_list of Positiv_negativ.py: without a match the
\* brightest window is taken.
pick_dapi_brightest(candidates, brightest) ==
    IF FirstMatch(candidates, "dapi") # 0 THEN FirstMatch(candidates, "dapi")
    ELSE IF Len(candidates) = 0 THEN 0 ELSE brightest

\* The windows at the positions of S, in order.
WindowsAt(windows, S) ==
    LET In(i) == i \in S
    IN  SelectSeq([i \in 1..Len(windows) |-> i], In)

\* The channels a series goes on with, or the decision to skip it.
choose_channels(sc, windows, brightest) ==
    LET n == Len(windows)
        aoi == FirstMatch(windows, "aoi")
    IN  CASE sc = "NIA" ->
              LET dapi == pick_dapi_image(windows)
              IN  IF n = 0 \/ dapi = 0
                  THEN [dapi |-> 0, markers |-> <<>>, aoi |-> 0, skipped |-> TRUE]
                  ELSE [dapi |-> dapi, markers |-> <<>>, aoi |-> aoi,
                        skipped |-> FALSE]
          [] sc = "PAPN" ->
              LET dapi == pick_dapi_brightest(windows, brightest)
              IN  IF n = 0 \/ dapi = 0
                  THEN [dapi |-> 0, markers |-> <<>>, aoi |-> 0, skipped |-> TRUE]
                  ELSE [dapi |-> dapi,
                        markers |-> WindowsAt(windows, (1..n) \ {dapi}),
                        aoi |-> aoi, skipped |-> FALSE]
          [] OTHER ->
              LET dapi == pick_dapi_brightest(windows, brightest)
                  markers == WindowsAt(windows,
                                 {i \in 1..n : windows[i].marker})
              IN  IF dapi = 0 \/ markers = <<>>
                  THEN [dapi |-> 0, markers |-> <<>>, aoi |-> 0, skipped |-> TRUE]
                  ELSE [dapi |-> dapi, markers |-> markers, aoi |-> 0,
                        skipped |-> FALSE]

-----------------------------------------------------------------------------
(* The CSV sink: export_csv of NucleiInsideAOi.py, export_intensity of
   intensity.py, export_counts of nuclei_stardist_vscode.py.  A line of the
   file is [header, row]; a writer holds what was written to it until it is
   closed, and what an unclosed writer holds never reaches the file. *)

HeaderLine == [header |-> TRUE, row |-> 0]

RowLine(r) == [header |-> FALSE, row |-> r]

\* What the writer holds when the call ends or raises: the header if the
\* file did not exist and the header was written, then the row if it was.
Written(first, r, raises) ==
    (IF first /\ raises # "header" THEN <<HeaderLine>> ELSE <<>>) \o
    (IF raises = "none" THEN <<RowLine(r)>> ELSE <<>>)

\* Whether the function closes its writer when a write raises:
\* export_csv closes in a finally block, export_counts in a with block,
\* export_intensity closes after its last write only.
closes_on_raise(fn) == fn \in {"export_csv", "export_counts"}

\* One export call on a file: what the file and the count of open writers
\* are after it.  The writer is opened for appending, which creates the
\* file.
export(fn, exists, lines, open, r, raises) ==
    LET first == ~exists
        closed == raises = "none" \/ closes_on_raise(fn)
    IN  [exists |-> TRUE,
         lines |-> IF closed THEN lines \o Written(first, r, raises) ELSE lines,
         open |-> IF closed THEN open ELSE open + 1]

-----------------------------------------------------------------------------
(* The marker channels of Positiv_negativ.py and their thresholds *)

\* Whether one of the identifiers is in the title of a window.
MatchesAKey(title_keys) == title_keys # {}

\* markers: the windows whose title contains one of the identifiers, in
\* the order of the windows.
markers_of(windows) ==
    LET Hit(i) == MatchesAKey(windows[i])
    IN  SelectSeq([i \in 1..Len(windows) |-> i], Hit)

\* marker_preps: the first len(MARKER_CHANNEL_KEYS) marker windows, the
\* idx-th of them with thr = float(marker_fixed[idx]).
marker_preps_of(mks, fixed) ==
    [idx \in 1..Min(Len(mks), Len(fixed)) |->
        [window |-> mks[idx], thr |-> fixed[idx]]]

-----------------------------------------------------------------------------
(* Preprocessing and thresholding a channel: the AOI mask of
   NucleiInsideAOi.py and positivearea_Positivnegativ.py, the marker
   duplicate of positivearea_Positivnegativ.py, preprocess_marker of
   Positiv_negativ.py.  The channel is followed at one pixel: its value v
   and the background level bg under it, in the value range of the
   channel as read, whose display range is 0..hi. *)

\* ImageConverter.convertToGray8: the display range 0..hi is scaled
\* onto 0..255.
ToGray8(v, hi) == Min(255, (v * 256) \div (hi + 1))

\* ensure_gray8: converts unless the image is 8-bit already.
ensure_gray8(img, bits, hi) ==
    IF bits # 8
    THEN [value |-> ToGray8(img.value, hi), bg |-> ToGray8(img.bg, hi),
          gray8 |-> TRUE]
    ELSE img

\* Whether the script converts the duplicate before it goes on.
converts_duplicate(kind) == kind \in {"NIA_AOI", "PAPN_AOI", "PAPN_MARKER"}

\* Whether the script runs the background steps on this duplicate.
runs_background(kind, apply_bg) == kind # "PAPN_MARKER" /\ apply_bg

\* "Subtract Background...": the background level is taken off; none is
\* left under the pixel afterwards.
subtract_background(img) ==
    [img EXCEPT !.value = Max(0, img.value - img.bg), !.bg = 0]

\* A mutant of the rolling loop's length: range(ROLLING_REPEAT).
rolling_passes_unclamped(n) == n

\* for _ in range(max(1, ROLLING_REPEAT))
rolling_passes(n) == Max(1, n)

-----------------------------------------------------------------------------
(* The images of one process_series call of NucleiInsideAOi.py.  An image
   is a record [kind, i]: the series image, a channel window, the
   working-resolution image, the 8-bit DAPI duplicate, the AOI duplicate. *)

SeriesImage == [kind |-> "imp", i |-> 0]

ChannelWindow(i) == [kind |-> "window", i |-> i]

WorkImage == [kind |-> "work", i |-> 0]

DapiDisp == [kind |-> "dapi_disp", i |-> 0]

AoiProc == [kind |-> "AOIproc", i |-> 0]

\* "Split Channels" and list_series_images: an image of one channel stays
\* as it is and is the only window listed; one of several channels is
\* replaced by a window per channel.  n = 0 stands for a listing that
\* finds no window of the series.
windows_after_split(n) ==
    IF n = 0 THEN <<>>
    ELSE IF n = 1 THEN <<SeriesImage>>
    ELSE [i \in 1..n |-> ChannelWindow(i)]

open_after_split(n) ==
    IF n <= 1 THEN {SeriesImage} ELSE {ChannelWindow(i) : i \in 1..n}

\* for w in series_wins: close_if_open(w)
close_all(wins, open) == open \ {wins[i] : i \in 1..Len(wins)}

\* for w in series_wins: close_if_open(w); close_if_open(imp); ...; return
\* -- the statements after the colon are all the loop's body, so the
\* function returns in the first iteration.
close_in_loop_and_return(wins, open) ==
    IF Len(wins) = 0 THEN open ELSE open \ {wins[1], SeriesImage}

-----------------------------------------------------------------------------
(* One series among others in positivearea_Positivnegativ.py.  A series
   name is a sequence of characters (numbers here); the window of channel
   c of a series carries the title "C<c>-<name>", the prefix being the one
   character -c.  A window is [owner, c, title, dapi, marker, aoi]. *)

\* key in title
Contains(key, title) ==
    \E i \in 1..(Len(title) - Len(key) + 1) :
        SubSeq(title, i, i + Len(key) - 1) = key

\* The windows "Split Channels" leaves for a series of n >= 2 channels;
\* "c1-" is among the DAPI patterns, "c2-" is the AOI identifier.
split_channels(name, n) ==
    [c \in 1..n |-> [owner |-> name, c |-> c, title |-> <<-c>> \o name,
                     dapi |-> (c = 1), marker |-> FALSE, aoi |-> (c = 2)]]

\* list_series_images: every open window whose title contains the name.
list_series_images(series, open) ==
    LET Hit(w) == Contains(series, w.title)
    IN  SelectSeq(open, Hit)

\* while len(marker_fixed) < len(marker_list): marker_fixed.append(...)
RECURSIVE pad_marker_fixed(_, _)
pad_marker_fixed(fixed, n) ==
    IF Len(fixed) >= n THEN fixed
    ELSE pad_marker_fixed(
             Append(fixed, IF Len(fixed) > 0 THEN fixed[Len(fixed)] ELSE 1000),
             n)

\* What process_series does with one series, given the windows open and
\* the list marker_fixed when it is called: the windows open and the list
\* afterwards, and what its rows are computed from.
process_series(name, n, open, fixed, show_at_end) ==
    LET all == open \o split_channels(name, n)
        wins == list_series_images(name, all)
        sel == choose_channels("PAPN", wins, 1)
        marker_list == [k \in 1..Len(sel.markers) |-> wins[sel.markers[k]]]
        padded == pad_marker_fixed(fixed, Len(marker_list))
        used == Min(Len(marker_list), Len(padded))
        Stays(w) == ~Contains(name, w.title)
    IN  [open |-> IF show_at_end THEN all ELSE SelectSeq(all, Stays),
         fixed |-> padded,
         row |-> [series |-> name,
                  dapi |-> [owner |-> wins[sel.dapi].owner,
                            c |-> wins[sel.dapi].c],
                  marker_rows |->
                      [k \in 1..used |->
                          [owner |-> marker_list[k].owner,
                           c |-> marker_list[k].c, thr |-> padded[k]]]]]

-----------------------------------------------------------------------------
(* The percent-area pipeline of positv_area.py.  A channel is the sequence
   of its pixel values in the order of the index k. *)

\* make_mask: the indices k whose pixel is at least the threshold.
make_mask(t_ip, thr_eff) == {k \in 1..Len(t_ip) : t_ip[k] >= thr_eff}

\* A mutant of save_pos_map: it counts outside the total mask too.
save_pos_map_unmasked(total_mask, pos_ip, p_thr) ==
    Cardinality({k \in 1..Len(pos_ip) : pos_ip[k] >= p_thr})

\* save_pos_map: pos_px, the pixels of the total mask at or above the
\* positive threshold.
save_pos_map(total_mask, pos_ip, p_thr) ==
    Cardinality({k \in 1..Len(pos_ip) : k \in total_mask /\ pos_ip[k] >= p_thr})

\* The body of the series loop from the masks on: the per-series row.
area_row(s, t_thr, p_thr) ==
    LET total_mask == make_mask(s.t_ip, t_thr)
        total_area_px == Cardinality(total_mask)
        pos_in_total == IF total_area_px = 0 THEN 0
                        ELSE save_pos_map(total_mask, s.p_ip, p_thr)
    IN  [Total_Area_px |-> total_area_px, Positive_Area_px |-> pos_in_total,
         Percent_Positive |-> Percent(pos_in_total, total_area_px)]

-----------------------------------------------------------------------------
(* The nuclei counts file: written by nuclei_stardist_sorted.py, read by
   intensity.py.  A text is a sequence of pieces, each a string; the comma
   is a piece of its own, and so are "_Series" and "_Serie". *)

Digits == <<"0", "1", "2", "3", "4", "5", "6", "7", "8", "9">>

\* "%d" % n, for one digit.
FormatInt(n) == Digits[n + 1]

\* int(float(count_str)), 0 on the exception.
ParseInt(text) ==
    IF Len(text) = 1 /\ \E n \in 0..9 : Digits[n + 1] = text[1]
    THEN CHOOSE n \in 0..9 : Digits[n + 1] = text[1]
    ELSE 0

\* text.split(',')
RECURSIVE Split(_)
Split(text) ==
    LET commas == {i \in 1..Len(text) : text[i] = ","}
    IN  IF commas = {} THEN <<text>>
        ELSE LET i == CHOOSE c \in commas : \A c2 \in commas : c <= c2
             IN  <<SubSeq(text, 1, i - 1)>> \o
                 Split(SubSeq(text, i + 1, Len(text)))

\* clean_name of intensity.py: the part after the last comma.
clean_name(text) == Split(text)[Len(Split(text))]

\* The title nuclei_stardist_sorted.py counts a series under.
sorted_title(fname, idx, nseries) ==
    IF nseries > 1 THEN fname \o <<"_Series", FormatInt(idx)>> ELSE fname

\* export_counts of nuclei_stardist_sorted.py: the line of one count.
export_counts(image_name, total_count) ==
    image_name \o <<",", FormatInt(total_count)>>

\* series_name_raw of intensity.py.
series_name_raw(fname, idx) == fname \o <<"_Serie", FormatInt(idx)>>

\* line.lower().startswith("image")
StartsWithImage(text) ==
    Len(text) > 0 /\ text[1] \in {"Image", "image1.tif"}

\* The loop over the lines of the counts file: the map after them.
RECURSIVE load_counts(_, _)
load_counts(map, lns) ==
    IF lns = <<>> THEN map
    ELSE LET text == Head(lns)
             parts == Split(text)
             img_name_raw == IF Len(parts) >= 3 THEN parts[Len(parts) - 1]
                             ELSE parts[1]
             count_str == IF Len(parts) >= 3 THEN parts[Len(parts)]
                          ELSE parts[2]
             clean_img == clean_name(img_name_raw)
         IN  IF text = <<>> \/ StartsWithImage(text)
             THEN load_counts(map, Tail(lns))
             ELSE IF Len(parts) < 2 THEN map
             ELSE load_counts(
                      [k \in DOMAIN map \cup {clean_img} |->
                          IF k = clean_img THEN ParseInt(count_str)
                          ELSE map[k]],
                      Tail(lns))

\* nuclei_counts_map.get(key, 0)
map_get(map, k) == IF k \in DOMAIN map THEN map[k] ELSE 0

\* The pixel loop over one marker channel.
RECURSIVE positive_pixels(_, _)
positive_pixels(px, thr) ==
    IF px = <<>> THEN [count |-> 0, sum |-> 0]
    ELSE LET rest == positive_pixels(Tail(px), thr)
         IN  IF Head(px) > thr
             THEN [count |-> rest.count + 1, sum |-> rest.sum + Head(px)]
             ELSE rest

\* The loop over the marker channels of one series: the rows and the
\* totals after it.
RECURSIVE marker_loop(_, _, _, _)
marker_loop(chans, nuclei_count, thr, acc) ==
    IF chans = <<>> THEN acc
    ELSE LET m == positive_pixels(Head(chans), thr)
             row == [Positive_Pixels |-> m.count,
                     Integrated_Intensity |-> m.sum,
                     Nuclei_Count |-> nuclei_count,
                     Normalized_Intensity |->
                         MeanOrZero(<<m.sum, 1>>, nuclei_count)]
         IN  marker_loop(Tail(chans), nuclei_count, thr,
                 [rws |-> Append(acc.rws, row),
                  total_positive |-> acc.total_positive + m.count,
                  total_integrated |-> acc.total_integrated + m.sum,
                  total_nuclei |-> acc.total_nuclei + nuclei_count])


-----------------------------------------------------------------------------
(* Splitting a file in halves: the series selection of the main loops and
   the frame or slice range of the "Duplicate..." command
   (NucleiInsideAOi.py, positivearea_Positivnegativ.py, positv_area.py) *)

\* A mutant of the guards "len(imps) > 1", "nT > 1", "nZ > 1": it always
\* splits.
is_split_always(n) == TRUE

\* len(imps) > 1, nT > 1, nZ > 1
is_split(n) == n > 1

\* range(0, cut) if SPLIT_WHICH == "first" else range(cut, total), or
\* range(len(imps)): the positions, from 0, in order.
series_selection(total, which) ==
    LET cut == total \div 2
    IN  IF is_split(total)
        THEN IF which = "first" THEN [i \in 1..cut |-> i - 1]
             ELSE [i \in 1..(total - cut) |-> cut + i - 1]
        ELSE [i \in 1..total |-> i - 1]

\* "1-half" or "half+1-nT" of the duplicate; the whole stack when it is
\* not split: the frames (slices), from 1.
frames_selection(nT, which) ==
    LET half == nT \div 2
    IN  IF is_split(nT)
        THEN IF which = "first" THEN 1..half ELSE (half + 1)..nT
        ELSE 1..nT

-----------------------------------------------------------------------------
(* Idle values: what a specification leaves the other parts at *)

RescaleIdle ==
    /\ roi_in = NoRoi
    /\ roi = NoRoi
    /\ sx = <<1, 1>>
    /\ sy = <<1, 1>>
    /\ ncalls = 0

IterIdle ==
    /\ ip = NullIp
    /\ iroi = NullRoi
    /\ pixels = <<>>
    /\ iterated = FALSE

NoConfig ==
    [size_min |-> 0, size_max |-> 0, min_mean_intensity |-> 0,
     sigma_above_bg |-> <<0, 1>>, scale_factor |-> <<1, 1>>]

FilterIdle ==
    /\ pipeline = "none"
    /\ config = NoConfig
    /\ labels = <<>>
    /\ dapi_img = <<>>
    /\ fphase = "idle"
    /\ kept = <<>>
    /\ rejected = {}
    /\ rm = <<>>
    /\ filtered_labels = <<>>
    /\ refiltered_labels = <<>>

BatchIdle ==
    /\ script = "none"
    /\ files = <<>>
    /\ fi = 0
    /\ si = 0
    /\ pc = "idle"
    /\ rows = <<>>
    /\ grand_total = 0
    /\ handled = {}

ScaleIdle ==
    /\ mscript = "none"
    /\ SCALE_FACTOR = <<1, 1>>
    /\ orig = <<0, 0>>
    /\ work = <<0, 0>>
    /\ roi_frame = <<0, 0>>
    /\ sphase = "idle"
    /\ measured = <<>>

NoPar == [thr |-> 0, frac |-> <<0, 1>>]

NoOut == [area |-> 0]

MeasureIdle ==
    /\ m_script = "none"
    /\ m_ip = [null |-> TRUE, W |-> 0, H |-> 0, px |-> <<>>]
    /\ m_roi = NullRoi
    /\ m_op = "idle"
    /\ m_par = NoPar
    /\ m_out = NoOut

NoAcc == [pos_cnt |-> 0, neg_cnt |-> 0]

MarkerIdle ==
    /\ mk = [script |-> "none"]
    /\ mk_phase = "idle"
    /\ mk_ridx = 0
    /\ mk_acc = NoAcc
    /\ mk_detail = <<>>
    /\ mk_summary = <<>>

MorphIdle ==
    /\ mo = [script |-> "none"]
    /\ mo_phase = "idle"
    /\ mo_circ = <<>>
    /\ mo_row = [written |-> FALSE]

NoSel == [dapi |-> 0, markers |-> <<>>, aoi |-> 0, skipped |-> FALSE]

ChannelIdle ==
    /\ ch = [script |-> "none"]
    /\ ch_phase = "idle"
    /\ ch_sel = NoSel
    /\ ch_rows = FALSE

CsvIdle ==
    /\ csv_fn = "none"
    /\ csv_exists = FALSE
    /\ csv_lines = <<>>
    /\ csv_open = 0
    /\ csv_calls = <<>>

ThresholdIdle ==
    /\ marker_fixed = <<>>
    /\ mt_windows = <<>>
    /\ mt_phase = "idle"
    /\ mt_markers = <<>>
    /\ marker_preps = <<>>

NoImg == [value |-> 0, bg |-> 0, gray8 |-> FALSE]

PrepIdle ==
    /\ pp = [kind |-> "none"]
    /\ pp_pc = "idle"
    /\ pp_left = 0
    /\ pp_img = NoImg
    /\ pp_ops = <<>>
    /\ pp_fg = FALSE

ReleaseIdle ==
    /\ rel = [n |-> 0]
    /\ rel_pc = "idle"
    /\ series_wins = <<>>
    /\ rel_open = {}

SeriesIdle ==
    /\ ser = [order |-> <<>>]
    /\ ser_i = 0
    /\ ser_open = <<>>
    /\ ser_fixed = <<>>
    /\ ser_rows = <<>>

AreaIdle ==
    /\ area_file = [series |-> <<>>]
    /\ area_i = 0
    /\ well_total_area = 0
    /\ well_pos_area = 0
    /\ area_rows = <<>>
    /\ well_rows = <<>>

IntensityIdle ==
    /\ inten = [name |-> <<>>]
    /\ inten_pc = "idle"
    /\ inten_i = 0
    /\ nuclei_counts_map = <<>>
    /\ total_positive = 0
    /\ total_integrated = 0
    /\ total_nuclei = 0
    /\ inten_rows = <<>>
    /\ inten_well = <<>>

SplitIdle ==
    /\ split = [SPLIT_BY |-> "none"]
    /\ sp_run = 0
    /\ sp_pc = "idle"
    /\ sp_sel = <<>>
    /\ sp_processed = <<>>

-----------------------------------------------------------------------------
(* Driving roi_pixel_iter *)

Sides == {0, 1, MaxBox}

IterBounds ==
    [x : (0 - PosOut)..MaxImg, y : {0 - PosOut, 0, MaxImg - 1},
     width : 0..MaxBox, height : Sides]

\* Every region of the bounds: without a mask, or with any mask of the size
\* of its bounding box.
IterRois ==
    {NullRoi} \cup
    UNION {{[null |-> FALSE, b |-> bb, mask |-> m] :
              m \in {NoMask} \cup
                    {[present |-> TRUE, on |-> on] :
                        on \in SUBSET ((0..(bb.width - 1)) \X (0..(bb.height - 1)))}} :
           bb \in IterBounds}

IterIps == {NullIp} \cup [null : {FALSE}, W : 1..MaxImg, H : {1, MaxImg}]

InitIter ==
    /\ ip \in IterIps
    /\ iroi \in IterRois
    /\ pixels = <<>>
    /\ iterated = FALSE
    /\ RescaleIdle
    /\ FilterIdle
    /\ BatchIdle
    /\ ScaleIdle
    /\ MeasureIdle
    /\ MarkerIdle
    /\ MorphIdle
    /\ ChannelIdle
    /\ CsvIdle
    /\ ThresholdIdle
    /\ PrepIdle
    /\ ReleaseIdle
    /\ SeriesIdle
    /\ AreaIdle
    /\ IntensityIdle
    /\ SplitIdle

\* The generator is run to exhaustion on (ip, roi).
Iterate ==
    /\ ~iterated
    /\ pixels' = roi_pixel_iter(ip, iroi)
    /\ iterated' = TRUE
    /\ UNCHANGED <<ip, iroi, rescaleVars, filterVars, batchVars, scaleVars, measureVars, markerVars,
                   morphVars, channelVars, csvVars,
                   thresholdVars,
                   prepVars,
                   releaseVars,
                   seriesVars,
                   areaVars,
                   intensityVars,
                   splitVars>>

NextIter == Iterate

SpecIter == InitIter /\ [][NextIter]_vars

\* C10: every coordinate roi_pixel_iter yields lies inside the channel,
\* 0 <= x < W and 0 <= y < H, and on a non-zero pixel of the region's mask
\* when the region has one, wherever the bounding box lies.
C10_InBounds ==
    iterated =>
        \A i \in 1..Len(pixels) :
            /\ 0 <= pixels[i][1] /\ pixels[i][1] < ip.W
            /\ 0 <= pixels[i][2] /\ pixels[i][2] < ip.H
            /\ iroi.mask.present =>
                 <<pixels[i][1] - iroi.b.x, pixels[i][2] - iroi.b.y>> \in iroi.mask.on

\* A fully masked region that starts left of the channel and ends below it:
\* some of its pixels were yielded and some were dropped.
C10_Witness ==
    /\ iterated
    /\ iroi.b.x < 0
    /\ iroi.b.y + iroi.b.height > ip.H
    /\ iroi.mask.present
    /\ Cardinality(iroi.mask.on) = iroi.b.width * iroi.b.height
    /\ Len(pixels) > 0
    /\ Len(pixels) < Cardinality(iroi.mask.on)

-----------------------------------------------------------------------------
(* Driving the rescaler *)

\* Inputs of the rescaler: a polygon with 1..MaxPts vertices (its bounds are
\* not read), or a region without vertices and any bounding box.
InitRescale ==
    /\ \/ /\ roi_in \in {[fp |-> p, b |-> NoRoi.b, type |-> "POLYGON"] :
                            p \in Polys \ {<<>>}}
          /\ sx \in {<<1, 2>>, <<1, 1>>, <<2, 1>>}
          /\ sy = sx
       \/ /\ roi_in \in {[fp |-> <<>>, b |-> bb, type |-> "RECTANGLE"] : bb \in Boxes}
          /\ sx \in Scales
          /\ sy \in Scales
    /\ roi = roi_in
    /\ ncalls = 0
    /\ IterIdle
    /\ FilterIdle
    /\ BatchIdle
    /\ ScaleIdle
    /\ MeasureIdle
    /\ MarkerIdle
    /\ MorphIdle
    /\ ChannelIdle
    /\ CsvIdle
    /\ ThresholdIdle
    /\ PrepIdle
    /\ ReleaseIdle
    /\ SeriesIdle
    /\ AreaIdle
    /\ IntensityIdle
    /\ SplitIdle

\* First call: the region is rescaled by (sx, sy).
RescaleOnce ==
    /\ ncalls = 0
    /\ roi' = rescale_roi_to_original(roi, sx, sy)
    /\ ncalls' = 1
    /\ UNCHANGED <<roi_in, sx, sy, iterVars, filterVars, batchVars, scaleVars, measureVars, markerVars,
                   morphVars, channelVars, csvVars,
                   thresholdVars,
                   prepVars,
                   releaseVars,
                   seriesVars,
                   areaVars,
                   intensityVars,
                   splitVars>>

\* Second call, on the polygon the first call returned: rescaled by
\* (1/sx, 1/sy).
RescaleBack ==
    /\ ncalls = 1
    /\ roi.type = "POLYGON"
    /\ roi' = rescale_roi_to_original(roi, Inv(sx), Inv(sy))
    /\ ncalls' = 2
    /\ UNCHANGED <<roi_in, sx, sy, iterVars, filterVars, batchVars, scaleVars, measureVars, markerVars,
                   morphVars, channelVars, csvVars,
                   thresholdVars,
                   prepVars,
                   releaseVars,
                   seriesVars,
                   areaVars,
                   intensityVars,
                   splitVars>>

NextRescale == RescaleOnce \/ RescaleBack

SpecRescale == InitRescale /\ [][NextRescale]_vars

-----------------------------------------------------------------------------
(* Claims on the rescaler *)

\* C8: a polygon rescaled by s and then by 1/s, s in {0.5, 1.0, 2.0}, has
\* the same number of vertices, in the same order, with coordinates equal
\* to the original ones.
C8_RoundTrip ==
    (ncalls = 2 /\ roi_in.type = "POLYGON") =>
        /\ roi.type = "POLYGON"
        /\ Len(roi.fp) = Len(roi_in.fp)
        /\ \A i \in 1..Len(roi_in.fp) : roi.fp[i] = roi_in.fp[i]

\* A polygon of two vertices, one on a half pixel, went down by 0.5 and back.
C8_Witness ==
    /\ ncalls = 2
    /\ roi_in.type = "POLYGON"
    /\ Len(roi_in.fp) = 2
    /\ roi_in.fp[1][1] = <<1, 2>>
    /\ sx = <<1, 2>>
    /\ roi.fp = roi_in.fp

\* k is an integer nearest to the rational n/d (d > 0).
IsNearest(k, n, d) == 2 * Abs(k * d - n) <= d

\* C9 as stated: the result of the fallback is the rectangle spanned by the
\* two scaled corners of the bounding box, each rounded to the nearest
\* pixel, widened to 1 where the rounded corners coincide.
C9_AsStated ==
    (ncalls = 1 /\ roi_in.type = "RECTANGLE") =>
        LET b == roi_in.b
            x1 == PyRound(b.x * sx[1], sx[2])
            x2 == PyRound((b.x + b.width) * sx[1], sx[2])
            y1 == PyRound(b.y * sy[1], sy[2])
            y2 == PyRound((b.y + b.height) * sy[1], sy[2])
        IN  /\ roi.b.x = x1
            /\ roi.b.y = y1
            /\ roi.b.width = Max(1, x2 - x1)
            /\ roi.b.height = Max(1, y2 - y1)

\* C9 as amended: the origin of the result is the scaled origin rounded to
\* the nearest pixel; its width and height are the scaled width and height
\* rounded to the nearest integer, or 1 where that is smaller; both are at
\* least 1 for every box and scale factor.
C9_OriginAndSize ==
    (ncalls = 1 /\ roi_in.type = "RECTANGLE") =>
        LET b == roi_in.b
        IN  /\ roi.type = "RECTANGLE"
            /\ IsNearest(roi.b.x, b.x * sx[1], sx[2])
            /\ IsNearest(roi.b.y, b.y * sy[1], sy[2])
            /\ roi.b.width >= 1
            /\ roi.b.height >= 1
            /\ \/ IsNearest(roi.b.width, b.width * sx[1], sx[2])
               \/ roi.b.width = 1 /\ 2 * b.width * sx[1] < sx[2]
            /\ \/ IsNearest(roi.b.height, b.height * sy[1], sy[2])
               \/ roi.b.height = 1 /\ 2 * b.height * sy[1] < sy[2]

\* An empty box at a negative origin was scaled down: the size is clamped.
C9_Witness ==
    /\ ncalls = 1
    /\ roi_in.type = "RECTANGLE"
    /\ roi_in.b.width = 0
    /\ roi_in.b.x = -1
    /\ sx = <<1, 2>>
    /\ roi.b.width = 1
    /\ roi.b.x = -1

-----------------------------------------------------------------------------
(* Driving the region filter *)

Pipelines == {"NIA", "PAPN", "PN", "VSC"}

\* The scale factors the filter of positivearea_Positivnegativ.py runs at.
FilterScales == {<<1, 2>>, <<1, 1>>}

Configs ==
    {c \in [size_min : {1, 2}, size_max : {1, 8}, min_mean_intensity : {0, 2},
             sigma_above_bg : {<<0, 1>>, <<1, 2>>, <<3, 2>>},
             scale_factor : FilterScales] : c.size_min <= c.size_max}

\* The pixels of one label, as intensities in ascending order: the
\* statistics the filters read do not depend on where a pixel lies.
Runs ==
    {q \in UNION {[1..n -> Intensities] : n \in 0..MaxArea} :
        \A i \in 1..(Len(q) - 1) : q[i] <= q[i + 1]}

\* n copies of the label k.
Repeat(k, n) == [i \in 1..n |-> k]

\* The image made of the runs r[0], r[1], ... laid one after the other.
RECURSIVE LabelsOfRuns(_, _)
LabelsOfRuns(r, ks) ==
    IF ks = <<>> THEN <<>>
    ELSE Repeat(Head(ks), Len(r[Head(ks)])) \o LabelsOfRuns(r, Tail(ks))

RECURSIVE ImageOfRuns(_, _)
ImageOfRuns(r, ks) ==
    IF ks = <<>> THEN <<>>
    ELSE r[Head(ks)] \o ImageOfRuns(r, Tail(ks))

AllLabels == Ascending({0} \cup Labels)

InitFilter ==
    /\ pipeline \in Pipelines
    /\ config \in Configs
    /\ pipeline # "PAPN" => config.scale_factor = <<1, 1>>
    /\ \E r \in [{0} \cup Labels -> Runs] :
          /\ labels = LabelsOfRuns(r, AllLabels)
          /\ dapi_img = ImageOfRuns(r, AllLabels)
    /\ Len(labels) > 0
    /\ pipeline = "PN" => \E i \in Pixels(labels) : labels[i] = 0
    /\ fphase = "detected"
    /\ kept = <<>>
    /\ rejected = {}
    /\ rm = IF pipeline = "VSC" THEN <<>>
            ELSE rois_array_of(pipeline, labels, config)
    /\ filtered_labels = <<>>
    /\ refiltered_labels = <<>>
    /\ RescaleIdle
    /\ IterIdle
    /\ BatchIdle
    /\ ScaleIdle
    /\ MeasureIdle
    /\ MarkerIdle
    /\ MorphIdle
    /\ ChannelIdle
    /\ CsvIdle
    /\ ThresholdIdle
    /\ PrepIdle
    /\ ReleaseIdle
    /\ SeriesIdle
    /\ AreaIdle
    /\ IntensityIdle
    /\ SplitIdle

\* The filter loop, from its first region to its last.
Filter ==
    /\ fphase = "detected"
    /\ kept' = kept_of(pipeline, labels, dapi_img, config)
    /\ rejected' = Detected(labels) \ Range(kept')
    /\ filtered_labels' =
          IF pipeline = "VSC"
          THEN filter_labels_by_intensity(labels, dapi_img, config)
          ELSE filtered_labels
    /\ fphase' = "filtered"
    /\ UNCHANGED <<pipeline, config, labels, dapi_img, rm, refiltered_labels,
                   rescaleVars, iterVars, batchVars, scaleVars, measureVars, markerVars,
                   morphVars, channelVars, csvVars,
                   thresholdVars,
                   prepVars,
                   releaseVars,
                   seriesVars,
                   areaVars,
                   intensityVars,
                   splitVars>>

\* The ROI Manager is emptied and filled with the kept regions.
Refill ==
    /\ fphase = "filtered"
    /\ pipeline # "VSC"
    /\ rm' = refill(rm, kept)
    /\ fphase' = "refilled"
    /\ UNCHANGED <<pipeline, config, labels, dapi_img, kept, rejected,
                   filtered_labels, refiltered_labels, rescaleVars, iterVars, batchVars, scaleVars, measureVars, markerVars,
                   morphVars, channelVars, csvVars,
                   thresholdVars,
                   prepVars,
                   releaseVars,
                   seriesVars,
                   areaVars,
                   intensityVars,
                   splitVars>>

\* filter_labels_by_intensity applied to its own output, on the same
\* image with the same thresholds.
Refilter ==
    /\ fphase = "filtered"
    /\ pipeline = "VSC"
    /\ refiltered_labels' =
          filter_labels_by_intensity(filtered_labels, dapi_img, config)
    /\ fphase' = "refiltered"
    /\ UNCHANGED <<pipeline, config, labels, dapi_img, kept, rejected, rm,
                   filtered_labels, rescaleVars, iterVars, batchVars, scaleVars, measureVars, markerVars,
                   morphVars, channelVars, csvVars,
                   thresholdVars,
                   prepVars,
                   releaseVars,
                   seriesVars,
                   areaVars,
                   intensityVars,
                   splitVars>>

NextFilter == Filter \/ Refill \/ Refilter

SpecFilter == InitFilter /\ [][NextFilter]_vars

-----------------------------------------------------------------------------
(* Claims on the region filter *)

Filtered == fphase \in {"filtered", "refilled", "refiltered"}

BgStats == bgstats_of(pipeline, labels, dapi_img, config)

\* The three tests of the detection filter for the region k, each on its own.
SizeTest(k, scale) ==
    /\ config.size_min * scale[1] <= Area(labels, k) * scale[2]
    /\ Area(labels, k) * scale[2] <= config.size_max * scale[1]

AbsTest(k) ==
    \/ config.min_mean_intensity <= 0
    \/ MeanGe(RegionSum(labels, dapi_img, k), Area(labels, k),
              config.min_mean_intensity)

SigmaTest(k) ==
    \/ config.sigma_above_bg[1] <= 0
    \/ MeanGeBg(RegionSum(labels, dapi_img, k), Area(labels, k), BgStats,
                config.sigma_above_bg)

\* The three tests taken one after the other in the order ord, stopping at
\* the first that fails.
InOrder(t, ord) ==
    IF ~t[ord[1]] THEN FALSE ELSE IF ~t[ord[2]] THEN FALSE ELSE t[ord[3]]

Orders == {f \in [1..3 -> 1..3] : \A i, j \in 1..3 : f[i] = f[j] => i = j}

\* The scale the size thresholds are compared at: the square of the scale
\* factor in positivearea_Positivnegativ.py, 1 elsewhere.
EffectiveScale ==
    IF pipeline = "PAPN" THEN Mul(config.scale_factor, config.scale_factor)
    ELSE <<1, 1>>

C1Pipelines == {"NIA", "PAPN", "VSC"}

RegionsOf(lab) == {RegionOf(lab, k) : k \in Detected(lab)}

\* C2 as the specification states it: the filter applied to its own output
\* (same image, same configuration, background statistics recomputed)
\* returns exactly the regions it was given.
C2_AsStated ==
    fphase = "refiltered" => RegionsOf(refiltered_labels) = RegionsOf(filtered_labels)

\* C2, amended: the second application never keeps a region the first did
\* not, and it returns exactly the first result when the sigma test is
\* disabled or the first application rejected nothing; otherwise the
\* background now holds the pixels of the rejected regions and a region
\* kept at first may fall below the new floor.
C2_SecondPass ==
    fphase = "refiltered" =>
        /\ RegionsOf(refiltered_labels) \subseteq RegionsOf(filtered_labels)
        /\ (config.sigma_above_bg[1] <= 0 \/ rejected = {}) =>
              refiltered_labels = filtered_labels

\* The sigma test is disabled, the first application has rejected a region
\* and kept another, and the second application has returned the same
\* label image.
C2_Witness ==
    /\ fphase = "refiltered"
    /\ config.sigma_above_bg[1] <= 0
    /\ rejected # {}
    /\ kept # <<>>
    /\ refiltered_labels = filtered_labels

\* C3 as the specification states it: the kept collection is a strict
\* subset of the detected regions.
C3_AsStated ==
    Filtered => (Range(kept) \subseteq Detected(labels) /\ Range(kept) # Detected(labels))

\* C3, amended: the kept collection is a subset of the detected regions
\* (all of them when every region passes), and a rejected region is in
\* neither the kept collection nor the refilled ROI Manager nor the output
\* of a second application.
C3_SubsetNeverReadded ==
    Filtered =>
        /\ Range(kept) \subseteq Detected(labels)
        /\ Range(kept) \cap rejected = {}
        /\ fphase = "refilled" =>
              Range(rm) \cap rejected = {} /\ Range(rm) \subseteq Range(kept)
        /\ pipeline = "VSC" =>
              RegionsOf(filtered_labels) = {RegionOf(labels, k) : k \in Range(kept)}
        /\ fphase = "refiltered" =>
              RegionsOf(refiltered_labels) \cap {RegionOf(labels, k) : k \in rejected} = {}

\* The ROI Manager has been refilled after a loop that rejected one region
\* and kept another.
C3_Witness ==
    /\ fphase = "refilled"
    /\ rejected # {}
    /\ kept # <<>>
    /\ Range(rm) = Range(kept)

-----------------------------------------------------------------------------
(* Batch loops: what one series does to the counts file *)

MaxUnits == 3      \* series (or unreadable files) in a folder: 0..MaxUnits

\* How many regions a series keeps, when it keeps any.
KeptCounts == {1, 2}

\* How many series a readable file holds.
SeriesCounts == {1, 2}

\* The marker channels of Positiv_negativ.py and
\* positivearea_Positivnegativ.py.
MarkerKeys == <<1, 2>>

\* What happens to a series: no reference channel is identified, the
\* segmentation call raises, the segmentation call returns without a label
\* image or region list, it detects no region, the filter rejects every
\* region, or n regions are kept.
Failures == {"no_channel", "seg_raises", "seg_no_output", "none_detected",
             "all_filtered"}

Outcomes ==
    {[what |-> w, n |-> 0] : w \in Failures}
        \cup {[what |-> "kept", n |-> k] : k \in KeptCounts}

\* What a step of a loop body does: raise, or append rows and add to the
\* running total.
Raise == [raised |-> TRUE, written |-> <<>>, add |-> 0]

Skip == [raised |-> FALSE, written |-> <<>>, add |-> 0]

OneRow(n) ==
    [raised |-> FALSE, written |-> <<[marker |-> 0, count |-> n]>>, add |-> n]

MarkerRows(n) ==
    [raised |-> FALSE,
     written |-> [m \in 1..Len(MarkerKeys) |-> [marker |-> MarkerKeys[m], count |-> n]],
     add |-> 0]

\* process_series of NucleiInsideAOi.py: every early return comes before
\* the summary row; the StarDist call is outside any try.
process_series_NIA(o) ==
    CASE o.what = "seg_raises" -> Raise
      [] o.what = "kept"       -> OneRow(o.n)
      [] OTHER                 -> Skip

\* process_series of positivearea_Positivnegativ.py: as above, with the
\* StarDist call inside a try and one counts row per marker.
process_series_PAPN(o) ==
    CASE o.what = "kept" -> MarkerRows(o.n)
      [] OTHER           -> Skip

\* The loop body of Positiv_negativ.py: "continue" on missing channels, on
\* a missing label image and on an empty list of valid regions.
series_body_PN(o) ==
    CASE o.what = "seg_raises" -> Raise
      [] o.what = "kept"       -> MarkerRows(o.n)
      [] OTHER                 -> Skip

\* The loop body of nuclei_stardist_sorted.py: "continue" on a missing
\* channel and on a missing label image; otherwise one row, count 0
\* included.
series_body_SO(o) ==
    CASE o.what = "seg_raises" -> Raise
      [] o.what \in {"no_channel", "seg_no_output"} -> Skip
      [] OTHER                 -> OneRow(o.n)

\* process_image of nuclei_stardist_vscode.py followed by the two exports:
\* an image that cannot be loaded counts 0.
process_image(f) ==
    IF ~f.opens THEN OneRow(0)
    ELSE IF f.series[1].what = "seg_raises" THEN Raise
    ELSE OneRow(f.series[1].n)

series_body(sc, o) ==
    CASE sc = "NIA"  -> process_series_NIA(o)
      [] sc = "PAPN" -> process_series_PAPN(o)
      [] sc = "PN"   -> series_body_PN(o)
      [] OTHER       -> series_body_SO(o)

\* Whether the script catches a failure of BF.openImagePlus.
open_is_caught(sc) == sc \in {"NIA", "PAPN"}

\* A mutant of the running total: the count replaces the total.
accumulate_last(total, count) == count

\* grand_total += count
accumulate(total, count) == total + count

\* The rows written for the series si of the file f.
RowsFor(f, s, written) ==
    [j \in 1..Len(written) |->
        [name |-> "image", file |-> f, series |-> s,
         marker |-> written[j].marker, count |-> written[j].count]]

TotalRow(total) ==
    [name |-> "TOTAL_ALL_IMAGES", file |-> 0, series |-> 0, marker |-> 0,
     count |-> total]

\* The units of work in the file number i.
UnitsOf(f, i) ==
    IF f.opens THEN {<<i, s>> : s \in 1..Len(f.series)} ELSE {<<i, 0>>}

-----------------------------------------------------------------------------
(* Driving the batch loops *)

Scripts == {"NIA", "PAPN", "PN", "SO", "VSC"}

Unreadable == [opens |-> FALSE, series |-> <<>>]

\* The files a script can meet: nuclei_stardist_vscode.py reads one image
\* per file and identifies its channel by position.
FileTypes(sc) ==
    IF sc = "VSC"
    THEN {Unreadable} \cup
         {[opens |-> TRUE, series |-> <<o>>] :
             o \in {x \in Outcomes : x.what \notin {"no_channel", "seg_no_output"}}}
    ELSE {Unreadable} \cup
         {[opens |-> TRUE, series |-> q] :
             q \in UNION {[1..n -> Outcomes] : n \in SeriesCounts}}

UnitCount(f) == IF f.opens THEN Len(f.series) ELSE 1

\* The folders of at most u units.
RECURSIVE BatchesUpTo(_, _)
BatchesUpTo(sc, u) ==
    {<<>>} \cup
    UNION {{<<f>> \o b : b \in BatchesUpTo(sc, u - UnitCount(f))} :
              f \in {g \in FileTypes(sc) : UnitCount(g) <= u}}

InitBatch ==
    /\ script \in Scripts
    /\ files \in BatchesUpTo(script, MaxUnits)
    /\ fi = 1
    /\ si = 0
    /\ pc = "loop"
    /\ rows = <<>>
    /\ grand_total = 0
    /\ handled = {}
    /\ RescaleIdle
    /\ IterIdle
    /\ FilterIdle
    /\ ScaleIdle
    /\ MeasureIdle
    /\ MarkerIdle
    /\ MorphIdle
    /\ ChannelIdle
    /\ CsvIdle
    /\ ThresholdIdle
    /\ PrepIdle
    /\ ReleaseIdle
    /\ SeriesIdle
    /\ AreaIdle
    /\ IntensityIdle
    /\ SplitIdle

\* main of nuclei_stardist_vscode.py finds no image file and returns 1.
VscNoImages ==
    /\ script = "VSC"
    /\ pc = "loop"
    /\ files = <<>>
    /\ pc' = "exit1"
    /\ UNCHANGED <<script, files, fi, si, rows, grand_total, handled,
                   rescaleVars, iterVars, filterVars, scaleVars, measureVars, markerVars,
                   morphVars, channelVars, csvVars,
                   thresholdVars,
                   prepVars,
                   releaseVars,
                   seriesVars,
                   areaVars,
                   intensityVars,
                   splitVars>>

\* One pass of the loop of main: process_image, export_counts,
\* export_morphology and the addition, all inside one try.
VscImage ==
    /\ script = "VSC"
    /\ pc = "loop"
    /\ fi <= Len(files)
    /\ LET res == process_image(files[fi])
       IN  /\ rows' = IF res.raised THEN rows
                      ELSE rows \o RowsFor(fi, 1, res.written)
           /\ grand_total' = IF res.raised THEN grand_total
                             ELSE accumulate(grand_total, res.add)
    /\ handled' = handled \cup UnitsOf(files[fi], fi)
    /\ fi' = fi + 1
    /\ UNCHANGED <<script, files, si, pc, rescaleVars, iterVars, filterVars, scaleVars, measureVars, markerVars,
                   morphVars, channelVars, csvVars,
                   thresholdVars,
                   prepVars,
                   releaseVars,
                   seriesVars,
                   areaVars,
                   intensityVars,
                   splitVars>>

\* After the loop of main: the TOTAL_ALL_IMAGES row.
VscTotal ==
    /\ script = "VSC"
    /\ pc = "loop"
    /\ files # <<>>
    /\ fi > Len(files)
    /\ rows' = Append(rows, TotalRow(grand_total))
    /\ pc' = "done"
    /\ UNCHANGED <<script, files, fi, si, grand_total, handled,
                   rescaleVars, iterVars, filterVars, scaleVars, measureVars, markerVars,
                   morphVars, channelVars, csvVars,
                   thresholdVars,
                   prepVars,
                   releaseVars,
                   seriesVars,
                   areaVars,
                   intensityVars,
                   splitVars>>

\* A Fiji script opens the next file with BF.openImagePlus.
OpenFile ==
    /\ script # "VSC"
    /\ pc = "loop"
    /\ fi <= Len(files)
    /\ IF files[fi].opens
       THEN /\ pc' = "series"
            /\ si' = 1
            /\ UNCHANGED <<fi, handled>>
       ELSE IF open_is_caught(script)
       THEN /\ fi' = fi + 1
            /\ handled' = handled \cup UnitsOf(files[fi], fi)
            /\ UNCHANGED <<pc, si>>
       ELSE /\ pc' = "aborted"
            /\ UNCHANGED <<fi, si, handled>>
    /\ UNCHANGED <<script, files, rows, grand_total,
                   rescaleVars, iterVars, filterVars, scaleVars, measureVars, markerVars,
                   morphVars, channelVars, csvVars,
                   thresholdVars,
                   prepVars,
                   releaseVars,
                   seriesVars,
                   areaVars,
                   intensityVars,
                   splitVars>>

\* A Fiji script processes the series si of the file fi.
Series ==
    /\ script # "VSC"
    /\ pc = "series"
    /\ LET res == series_body(script, files[fi].series[si])
       IN  IF res.raised
           THEN /\ pc' = "aborted"
                /\ UNCHANGED <<fi, si, rows, grand_total, handled>>
           ELSE /\ rows' = rows \o RowsFor(fi, si, res.written)
                /\ grand_total' = IF script = "SO"
                                  THEN accumulate(grand_total, res.add)
                                  ELSE grand_total
                /\ handled' = handled \cup {<<fi, si>>}
                /\ IF si < Len(files[fi].series)
                   THEN si' = si + 1 /\ UNCHANGED <<fi, pc>>
                   ELSE fi' = fi + 1 /\ si' = 0 /\ pc' = "loop"
    /\ UNCHANGED <<script, files, rescaleVars, iterVars, filterVars, scaleVars, measureVars, markerVars,
                   morphVars, channelVars, csvVars,
                   thresholdVars,
                   prepVars,
                   releaseVars,
                   seriesVars,
                   areaVars,
                   intensityVars,
                   splitVars>>

\* A Fiji script leaves its loop over the files: nuclei_stardist_sorted.py
\* appends the TOTAL_ALL_IMAGES row, the others log that they are done.
EndBatch ==
    /\ script # "VSC"
    /\ pc = "loop"
    /\ fi > Len(files)
    /\ rows' = IF script = "SO" THEN Append(rows, TotalRow(grand_total))
               ELSE rows
    /\ pc' = "done"
    /\ UNCHANGED <<script, files, fi, si, grand_total, handled,
                   rescaleVars, iterVars, filterVars, scaleVars, measureVars, markerVars,
                   morphVars, channelVars, csvVars,
                   thresholdVars,
                   prepVars,
                   releaseVars,
                   seriesVars,
                   areaVars,
                   intensityVars,
                   splitVars>>

NextBatch ==
    VscNoImages \/ VscImage \/ VscTotal \/ OpenFile \/ Series \/ EndBatch

SpecBatch == InitBatch /\ [][NextBatch]_vars

-----------------------------------------------------------------------------
(* Claims on the batch loops *)

\* The rows of the counts file written for the series s of the file f.
RowsOf(f, s) ==
    {j \in 1..Len(rows) :
        rows[j].name = "image" /\ rows[j].file = f /\ rows[j].series = s}

TotalRows == {j \in 1..Len(rows) : rows[j].name = "TOTAL_ALL_IMAGES"}

RECURSIVE SumCounts(_)
SumCounts(J) ==
    IF J = {} THEN 0
    ELSE LET j == CHOOSE x \in J : TRUE
         IN  rows[j].count + SumCounts(J \ {j})

\* The series that were processed and ended without a kept region.
EmptySeries ==
    {u \in handled :
        /\ u[2] >= 1
        /\ files[u[1]].series[u[2]].what \in {"none_detected", "all_filtered"}}

\* C4 as the specification states it: every processed series in which no
\* region was detected or every region was filtered out has its summary
\* row (one per marker in the marker scripts), with count 0.
C4_AsStated ==
    \A u \in EmptySeries :
        /\ RowsOf(u[1], u[2]) # {}
        /\ \A j \in RowsOf(u[1], u[2]) : rows[j].count = 0
        /\ \A j, k \in RowsOf(u[1], u[2]) :
              rows[j].marker = rows[k].marker => j = k

\* C5 as the specification states it: a batch that has stopped has gone
\* through every file and series and reached its end, whichever of them
\* failed to open, to show its channels or to segment.
C5_AsStated ==
    pc \in {"done", "aborted"} =>
        /\ pc = "done"
        /\ \A i \in 1..Len(files) : UnitsOf(files[i], i) \subseteq handled

-----------------------------------------------------------------------------
(* Working resolution: process_series of NucleiInsideAOi.py and of
   positivearea_Positivnegativ.py *)

MaxDim == 3        \* width and height of the channels as read: 1..MaxDim

\* new_w = max(1, int(round(orig_w * SCALE_FACTOR)))
scaled_size(n, s) == Max(1, PyRound(n * s[1], s[2]))

\* The size of what "Scale..." leaves as the current image: the scaled copy,
\* or the image as it was when the call yields none.
scale_duplicate_to(dims, s, yields) ==
    IF s = <<1, 1>> \/ ~yields THEN dims
    ELSE <<scaled_size(dims[1], s), scaled_size(dims[2], s)>>

\* A mutant of the test below: the regions are mapped back only when both
\* sides differ.
needs_rescale_both(w, o) == w[1] # o[1] /\ w[2] # o[2]

\* work_w != orig_w or work_h != orig_h
needs_rescale(w, o) == w[1] # o[1] \/ w[2] # o[2]

\* The frame of the regions after rescale_roi_to_original with
\* sx = orig_w / work_w and sy = orig_h / work_h: a frame is the pair of
\* the sides, each a rational.
rescaled_frame(frame, w, o) ==
    <<Mul(frame[1], Norm(<<o[1], w[1]>>)), Mul(frame[2], Norm(<<o[2], w[2]>>))>>

FrameOf(dims) == <<Norm(<<dims[1], 1>>), Norm(<<dims[2], 1>>)>>

Measurement(what, frame, image) ==
    [what |-> what, roi_frame |-> frame, image |-> FrameOf(image)]

-----------------------------------------------------------------------------
(* Driving the working resolution *)

InitScale ==
    /\ mscript \in {"NIA", "PAPN"}
    /\ SCALE_FACTOR \in Scales
    /\ orig \in (1..MaxDim) \X (1..MaxDim)
    /\ work = orig
    /\ roi_frame = <<<<0, 1>>, <<0, 1>>>>
    /\ sphase = "start"
    /\ measured = <<>>
    /\ RescaleIdle
    /\ IterIdle
    /\ FilterIdle
    /\ BatchIdle
    /\ MeasureIdle
    /\ MarkerIdle
    /\ MorphIdle
    /\ ChannelIdle
    /\ CsvIdle
    /\ ThresholdIdle
    /\ PrepIdle
    /\ ReleaseIdle
    /\ SeriesIdle
    /\ AreaIdle
    /\ IntensityIdle
    /\ SplitIdle

\* The working copy of the reference channel is scaled when SCALE_FACTOR
\* is not 1; the copy stays as it is when the call leaves no image.
ScaleWork ==
    /\ sphase = "start"
    /\ \E yields \in BOOLEAN :
          work' = scale_duplicate_to(orig, SCALE_FACTOR, yields)
    /\ sphase' = "scaled"
    /\ UNCHANGED <<mscript, SCALE_FACTOR, orig, roi_frame, measured,
                   rescaleVars, iterVars, filterVars, batchVars, measureVars, markerVars,
                   morphVars, channelVars, csvVars,
                   thresholdVars,
                   prepVars,
                   releaseVars,
                   seriesVars,
                   areaVars,
                   intensityVars,
                   splitVars>>

\* StarDist runs on the working copy: the regions are in its coordinates.
Detect ==
    /\ sphase = "scaled"
    /\ roi_frame' = FrameOf(work)
    /\ sphase' = "detected"
    /\ UNCHANGED <<mscript, SCALE_FACTOR, orig, work, measured,
                   rescaleVars, iterVars, filterVars, batchVars, measureVars, markerVars,
                   morphVars, channelVars, csvVars,
                   thresholdVars,
                   prepVars,
                   releaseVars,
                   seriesVars,
                   areaVars,
                   intensityVars,
                   splitVars>>

\* NucleiInsideAOi.py maps the regions back when the sizes differ.
MapBack ==
    /\ sphase = "detected"
    /\ mscript = "NIA"
    /\ roi_frame' = IF needs_rescale(work, orig)
                    THEN rescaled_frame(roi_frame, work, orig)
                    ELSE roi_frame
    /\ sphase' = "mapped"
    /\ UNCHANGED <<mscript, SCALE_FACTOR, orig, work, measured,
                   rescaleVars, iterVars, filterVars, batchVars, measureVars, markerVars,
                   morphVars, channelVars, csvVars,
                   thresholdVars,
                   prepVars,
                   releaseVars,
                   seriesVars,
                   areaVars,
                   intensityVars,
                   splitVars>>

\* The filter loop measures area and mean of every region on dapi_ip: the
\* channel as read in NucleiInsideAOi.py, the working copy in
\* positivearea_Positivnegativ.py.
MeasureFilter ==
    /\ \/ mscript = "NIA" /\ sphase = "mapped"
       \/ mscript = "PAPN" /\ sphase = "detected"
    /\ LET dapi_ip == IF mscript = "NIA" THEN orig ELSE work
       IN  measured' = measured \o
              <<Measurement("area", roi_frame, dapi_ip),
                Measurement("mean", roi_frame, dapi_ip)>>
    /\ sphase' = "filtered"
    /\ UNCHANGED <<mscript, SCALE_FACTOR, orig, work, roi_frame,
                   rescaleVars, iterVars, filterVars, batchVars, measureVars, markerVars,
                   morphVars, channelVars, csvVars,
                   thresholdVars,
                   prepVars,
                   releaseVars,
                   seriesVars,
                   areaVars,
                   intensityVars,
                   splitVars>>

\* The overlap of every kept region with the AOI mask: a duplicate of the
\* AOI channel in NucleiInsideAOi.py, a scaled duplicate in
\* positivearea_Positivnegativ.py.
MeasureAoi ==
    /\ sphase = "filtered"
    /\ \E yields \in BOOLEAN :
          LET aoi_proc == IF mscript = "NIA" THEN orig
                          ELSE scale_duplicate_to(orig, SCALE_FACTOR, yields)
          IN  measured' = Append(measured, Measurement("aoi", roi_frame, aoi_proc))
    /\ sphase' = "aoi"
    /\ UNCHANGED <<mscript, SCALE_FACTOR, orig, work, roi_frame,
                   rescaleVars, iterVars, filterVars, batchVars, measureVars, markerVars,
                   morphVars, channelVars, csvVars,
                   thresholdVars,
                   prepVars,
                   releaseVars,
                   seriesVars,
                   areaVars,
                   intensityVars,
                   splitVars>>

\* The positivity of every kept region on a scaled duplicate of a marker
\* channel (positivearea_Positivnegativ.py).
MeasureMarker ==
    /\ sphase = "aoi"
    /\ mscript = "PAPN"
    /\ \E yields \in BOOLEAN :
          LET m_imp == scale_duplicate_to(orig, SCALE_FACTOR, yields)
          IN  measured' = Append(measured, Measurement("marker", roi_frame, m_imp))
    /\ sphase' = "marker"
    /\ UNCHANGED <<mscript, SCALE_FACTOR, orig, work, roi_frame,
                   rescaleVars, iterVars, filterVars, batchVars, measureVars, markerVars,
                   morphVars, channelVars, csvVars,
                   thresholdVars,
                   prepVars,
                   releaseVars,
                   seriesVars,
                   areaVars,
                   intensityVars,
                   splitVars>>

NextScale ==
    ScaleWork \/ Detect \/ MapBack \/ MeasureFilter \/ MeasureAoi \/ MeasureMarker

SpecScale == InitScale /\ [][NextScale]_vars

-----------------------------------------------------------------------------
(* Claims on the working resolution *)

Native == FrameOf(orig)

-----------------------------------------------------------------------------
(* Driving the measurements of one region *)

MeasWidths == {2}
MeasHeights == {1, 2}
PixelValues == {0, 2}
MeasXs == {-1, 0, 1}
MeasYs == {0, 1}
MeasBoxWidths == {0, 1, 2}
MeasBoxHeights == {1, 2}

MeasIps ==
    {[null |-> TRUE, W |-> 0, H |-> 0, px |-> <<>>]} \cup
    UNION {UNION {{[null |-> FALSE, W |-> w, H |-> h, px |-> f] :
                      f \in [(0..(w - 1)) \X (0..(h - 1)) -> PixelValues]} :
                  h \in MeasHeights} : w \in MeasWidths}

MeasBounds ==
    [x : MeasXs, y : MeasYs, width : MeasBoxWidths, height : MeasBoxHeights]

MeasRois ==
    {NullRoi} \cup
    UNION {{[null |-> FALSE, b |-> b, mask |-> m] :
               m \in {NoMask} \cup
                     {[present |-> TRUE, on |-> on] :
                         on \in SUBSET ((0..(b.width - 1)) \X (0..(b.height - 1)))}} :
           b \in MeasBounds}

MeasScripts == {"NIA", "PAPN"}

\* AOI_ROI_MIN_FRAC = AOI_ROI_MIN_FRAC_PCT / 100.0: 0 %, 50 % and 100 %.
AoiFractions == {<<0, 1>>, <<1, 2>>, <<1, 1>>}

InitMeasure ==
    /\ m_script \in MeasScripts
    /\ m_ip \in MeasIps
    /\ m_roi \in MeasRois
    /\ m_op = "none"
    /\ m_par = NoPar
    /\ m_out = NoOut
    /\ RescaleIdle
    /\ IterIdle
    /\ FilterIdle
    /\ BatchIdle
    /\ ScaleIdle
    /\ MarkerIdle
    /\ MorphIdle
    /\ ChannelIdle
    /\ CsvIdle
    /\ ThresholdIdle
    /\ PrepIdle
    /\ ReleaseIdle
    /\ SeriesIdle
    /\ AreaIdle
    /\ IntensityIdle
    /\ SplitIdle

\* area_px = roi_area_pixels(dapi_ip, roi)
MeasureArea ==
    /\ m_op = "none"
    /\ m_op' = "area"
    /\ m_out' = [area |-> roi_area_pixels(m_ip, m_roi)]
    /\ UNCHANGED <<m_script, m_ip, m_roi, m_par>>
    /\ UNCHANGED <<rescaleVars, iterVars, filterVars, batchVars, scaleVars, markerVars,
                   morphVars, channelVars, csvVars,
                   thresholdVars,
                   prepVars,
                   releaseVars,
                   seriesVars,
                   areaVars,
                   intensityVars,
                   splitVars>>

\* mval = roi_mean(dapi_ip, roi)
MeasureMean ==
    /\ m_op = "none"
    /\ m_op' = "mean"
    /\ m_out' = [mean |-> roi_mean(m_ip, m_roi)]
    /\ UNCHANGED <<m_script, m_ip, m_roi, m_par>>
    /\ UNCHANGED <<rescaleVars, iterVars, filterVars, batchVars, scaleVars, markerVars,
                   morphVars, channelVars, csvVars,
                   thresholdVars,
                   prepVars,
                   releaseVars,
                   seriesVars,
                   areaVars,
                   intensityVars,
                   splitVars>>

\* The AOI flag of the filter loop, on the AOI mask's processor.
OverlapAoi ==
    /\ m_op = "none"
    /\ \E q \in AoiFractions :
           /\ m_par' = [thr |-> 0, frac |-> q]
           /\ m_out' = aoi_overlap(m_ip, m_roi, q)
    /\ m_op' = "aoi"
    /\ UNCHANGED <<m_script, m_ip, m_roi>>
    /\ UNCHANGED <<rescaleVars, iterVars, filterVars, batchVars, scaleVars, markerVars,
                   morphVars, channelVars, csvVars,
                   thresholdVars,
                   prepVars,
                   releaseVars,
                   seriesVars,
                   areaVars,
                   intensityVars,
                   splitVars>>

NextMeasure ==
    \/ MeasureArea
    \/ MeasureMean
    \/ OverlapAoi

SpecMeasure == InitMeasure /\ [][NextMeasure]_vars

-----------------------------------------------------------------------------
(* Claims on the measurements of one region *)

\* The pixels of the region that lie inside the channel: inside the bounds,
\* inside the image, and on the mask when there is one.
RegionPixels ==
    IF m_ip.null \/ m_roi.null THEN {}
    ELSE {pt \in (0..(m_ip.W - 1)) \X (0..(m_ip.H - 1)) :
            /\ pt[1] - m_roi.b.x \in 0..(m_roi.b.width - 1)
            /\ pt[2] - m_roi.b.y \in 0..(m_roi.b.height - 1)
            /\ (m_roi.mask.present =>
                   <<pt[1] - m_roi.b.x, pt[2] - m_roi.b.y>> \in m_roi.mask.on)}

RECURSIVE PixelSum(_)
PixelSum(S) ==
    IF S = {} THEN 0
    ELSE LET pt == CHOOSE q \in S : TRUE
         IN  m_ip.px[pt] + PixelSum(S \ {pt})

\* C11: the area of a region, in pixels, is the number of pixels the
\* iterator yields for it: the pixels inside its bounds, inside the image
\* and on its mask; it is at least 0 and at most width * height of the
\* bounds.
C11_AreaIsCount ==
    m_op = "area" =>
        /\ m_out.area = Len(roi_pixel_iter(m_ip, m_roi))
        /\ m_out.area = Cardinality(RegionPixels)
        /\ m_out.area >= 0
        /\ m_out.area <= m_roi.b.width * m_roi.b.height

\* A region partly outside the image with a mask that drops a pixel: its
\* area is positive and smaller than the area of its bounds.
C11_Witness ==
    /\ m_op = "area"
    /\ ~m_roi.null
    /\ m_roi.mask.present
    /\ m_roi.b.x < 0
    /\ m_out.area > 0
    /\ m_out.area < m_roi.b.width * m_roi.b.height

\* C12: the mean intensity of a region is the sum of the channel's values
\* at the pixels the iterator yields divided by their number, and it is
\* exactly 0 when the iterator yields no pixel.
C12_MeanOrZero ==
    m_op = "mean" =>
        /\ RegionPixels = {} => m_out.mean = <<0, 1>>
        /\ RegionPixels # {} =>
               m_out.mean = Norm(<<PixelSum(RegionPixels),
                                    Cardinality(RegionPixels)>>)

\* The mean of a region with no pixel in the channel was taken, and so was
\* a mean that is neither 0 nor a pixel value.
C12_Witness ==
    /\ m_op = "mean"
    /\ ~m_ip.null
    /\ ~m_roi.null
    /\ RegionPixels = {}
    /\ m_out.mean = <<0, 1>>

C12_WitnessMean ==
    /\ m_op = "mean"
    /\ Cardinality(RegionPixels) = 2
    /\ m_out.mean = <<1, 1>>

\* The pixels of the region that are foreground of the AOI mask.
ForegroundPixels == {pt \in RegionPixels : m_ip.px[pt] > 0}

SpecFraction ==
    IF m_ip.null \/ RegionPixels = {} THEN <<0, 1>>
    ELSE <<Cardinality(ForegroundPixels), Cardinality(RegionPixels)>>

-----------------------------------------------------------------------------
(* Driving the marker loop *)

MaxKept == 2       \* at most this many regions reach the marker loop

MarkerIps ==
    {[null |-> FALSE, W |-> 2, H |-> 1, px |-> f] :
        f \in [(0..1) \X {0} -> PixelValues]}

\* No AOI mask, one whose left pixel is foreground, one whose right pixel
\* is.
MarkerAois ==
    {[null |-> TRUE, W |-> 0, H |-> 0, px |-> <<>>],
     [null |-> FALSE, W |-> 2, H |-> 1,
      px |-> [pt \in (0..1) \X {0} |-> IF pt[1] = 0 THEN 2 ELSE 0]],
     [null |-> FALSE, W |-> 2, H |-> 1,
      px |-> [pt \in (0..1) \X {0} |-> IF pt[1] = 1 THEN 2 ELSE 0]]}

\* A region right of the channel, one covering it, and one whose mask
\* keeps the left pixel only.
MarkerRois ==
    {[null |-> FALSE, b |-> [x |-> 2, y |-> 0, width |-> 1, height |-> 1],
      mask |-> NoMask],
     [null |-> FALSE, b |-> [x |-> 0, y |-> 0, width |-> 2, height |-> 1],
      mask |-> NoMask],
     [null |-> FALSE, b |-> [x |-> 0, y |-> 0, width |-> 2, height |-> 1],
      mask |-> [present |-> TRUE, on |-> {<<0, 0>>}]]}

Circs == {NaN, [nan |-> FALSE, v |-> <<1, 2>>], [nan |-> FALSE, v |-> <<1, 1>>]}

MarkerThresholds == {2, 3}

\* POS_FRAC = POS_FRAC_PCT / 100.0: 5 % and 50 %.
PosFractions == {<<1, 20>>, <<1, 2>>}

MarkerScripts == {"PN", "PAPN"}

RegionsOfScript(sc) ==
    IF sc = "PN" THEN [reg : MarkerRois, Circ : {NaN}]
    ELSE [reg : MarkerRois, Circ : Circs]

InitMarker ==
    /\ \E sc \in MarkerScripts, p \in MarkerIps, a \in MarkerAois,
          t \in MarkerThresholds, q \in PosFractions, n \in 1..MaxKept :
          \E rs \in [1..n -> RegionsOfScript(sc)] :
             /\ sc = "PN" => a.null
             /\ mk = [script |-> sc, m_ip |-> p, aoi_mask_ip |-> a, thr |-> t,
                      POS_FRAC |-> q, AOI_ROI_MIN_FRAC |-> <<1, 2>>,
                      regions |-> rs]
             /\ mk_phase = IF sc = "PAPN" THEN "morph" ELSE "loop"
             /\ mk_acc = IF sc = "PAPN" THEN StartAccPAPN ELSE StartAccPN
    /\ mk_ridx = 0
    /\ mk_detail = <<>>
    /\ mk_summary = <<>>
    /\ RescaleIdle
    /\ IterIdle
    /\ FilterIdle
    /\ BatchIdle
    /\ ScaleIdle
    /\ MeasureIdle
    /\ MorphIdle
    /\ ChannelIdle
    /\ CsvIdle
    /\ ThresholdIdle
    /\ PrepIdle
    /\ ReleaseIdle
    /\ SeriesIdle
    /\ AreaIdle
    /\ IntensityIdle
    /\ SplitIdle

\* positivearea_Positivnegativ.py: the global morphology summary row.
GlobalMorph ==
    /\ mk_phase = "morph"
    /\ mk_summary' = Append(mk_summary,
                            [file |-> "morph_summary",
                             row |-> global_morph_row(mk.regions)])
    /\ mk_phase' = "loop"
    /\ UNCHANGED <<mk, mk_ridx, mk_acc, mk_detail>>
    /\ UNCHANGED <<rescaleVars, iterVars, filterVars, batchVars, scaleVars,
                   measureVars,
                   morphVars, channelVars, csvVars,
                   thresholdVars,
                   prepVars,
                   releaseVars,
                   seriesVars,
                   areaVars,
                   intensityVars,
                   splitVars>>

\* One pass of the region loop.
MarkerRegion ==
    /\ mk_phase = "loop"
    /\ mk_ridx < Len(mk.regions)
    /\ LET after == IF mk.script = "PN"
                    THEN marker_body_PN(mk, mk_acc, mk_detail, mk_ridx + 1)
                    ELSE marker_body_PAPN(mk, mk_acc, mk_detail, mk_ridx + 1)
       IN  /\ mk_acc' = after.acc
           /\ mk_detail' = after.detail
    /\ mk_ridx' = mk_ridx + 1
    /\ UNCHANGED <<mk, mk_phase, mk_summary>>
    /\ UNCHANGED <<rescaleVars, iterVars, filterVars, batchVars, scaleVars,
                   measureVars,
                   morphVars, channelVars, csvVars,
                   thresholdVars,
                   prepVars,
                   releaseVars,
                   seriesVars,
                   areaVars,
                   intensityVars,
                   splitVars>>

\* After the region loop: the counts row and, in
\* positivearea_Positivnegativ.py, the per-marker morphology row.
MarkerSummary ==
    /\ mk_phase = "loop"
    /\ mk_ridx = Len(mk.regions)
    /\ mk_summary' =
          IF mk.script = "PN"
          THEN Append(mk_summary,
                      [file |-> "counts", row |-> counts_row_PN(mk_acc)])
          ELSE mk_summary \o
               <<[file |-> "counts", row |-> counts_row_PAPN(mk_acc)],
                 [file |-> "morph_summary_marker",
                  row |-> morph_row_PAPN(mk_acc)]>>
    /\ mk_phase' = "done"
    /\ UNCHANGED <<mk, mk_ridx, mk_acc, mk_detail>>
    /\ UNCHANGED <<rescaleVars, iterVars, filterVars, batchVars, scaleVars,
                   measureVars,
                   morphVars, channelVars, csvVars,
                   thresholdVars,
                   prepVars,
                   releaseVars,
                   seriesVars,
                   areaVars,
                   intensityVars,
                   splitVars>>

NextMarker ==
    \/ GlobalMorph
    \/ MarkerRegion
    \/ MarkerSummary

SpecMarker == InitMarker /\ [][NextMarker]_vars

-----------------------------------------------------------------------------
(* Claims on the marker loop *)

MarkerRuns == mk_phase \in {"morph", "loop", "done"}

\* The pixels of the i-th region in the marker channel.
MarkerPixels(i) ==
    LET r == mk.regions[i].reg
    IN  {pt \in (0..(mk.m_ip.W - 1)) \X (0..(mk.m_ip.H - 1)) :
            /\ pt[1] - r.b.x \in 0..(r.b.width - 1)
            /\ pt[2] - r.b.y \in 0..(r.b.height - 1)
            /\ (r.mask.present =>
                   <<pt[1] - r.b.x, pt[2] - r.b.y>> \in r.mask.on)}

PositivePixels(i) == {pt \in MarkerPixels(i) : mk.m_ip.px[pt] >= mk.thr}

CountsRows ==
    {mk_summary[j].row : j \in {jj \in 1..Len(mk_summary) :
                                    mk_summary[jj].file = "counts"}}

\* C15: every per-region detail row holds the region's pixel count in the
\* marker channel and the count of those pixels at or above the threshold,
\* and Is_Positive is TRUE in it exactly when PosPix / ROI_px is at least
\* the minimum fraction; on a marker channel that is 0 everywhere, with a
\* positive threshold, every region is negative and Percent_Positive is 0.
C15_IsPositiveRule ==
    MarkerRuns =>
        /\ \A j \in 1..Len(mk_detail) :
              LET row == mk_detail[j]
              IN  /\ row.ROI_px = Cardinality(MarkerPixels(row.ROI_Index))
                  /\ row.PosPix = Cardinality(PositivePixels(row.ROI_Index))
                  /\ row.ROI_px > 0
                  /\ row.Is_Positive <=>
                        FracGe(row.PosPix, row.ROI_px, mk.POS_FRAC)
        /\ (\A pt \in DOMAIN mk.m_ip.px : mk.m_ip.px[pt] = 0) =>
              /\ \A j \in 1..Len(mk_detail) : ~mk_detail[j].Is_Positive
              /\ \A row \in CountsRows :
                    /\ row.Positive = 0
                    /\ row.Percent_Positive = <<0, 1>>

\* The loop is over on an all-zero marker channel: a region was written as
\* negative and the counts row has Percent_Positive 0.
C15_Witness ==
    /\ mk_phase = "done"
    /\ \A pt \in DOMAIN mk.m_ip.px : mk.m_ip.px[pt] = 0
    /\ mk.POS_FRAC = <<1, 20>>
    /\ mk_detail # <<>>
    /\ \E row \in CountsRows :
          /\ row.Negative = Len(mk_detail)
          /\ row.Percent_Positive = <<0, 1>>

\* A region at the boundary: half of its pixels reach the threshold exactly
\* and the minimum fraction is one half.
C15_WitnessBoundary ==
    /\ MarkerRuns
    /\ mk.POS_FRAC = <<1, 2>>
    /\ \E j \in 1..Len(mk_detail) :
          /\ mk_detail[j].ROI_px = 2
          /\ mk_detail[j].PosPix = 1
          /\ mk_detail[j].Is_Positive

\* The regions the loop has been through that have a pixel in the marker
\* channel.
Classified == {i \in 1..mk_ridx : MarkerPixels(i) # {}}

RECURSIVE CircSumOver(_)
CircSumOver(S) ==
    IF S = {} THEN <<0, 1>>
    ELSE LET i == CHOOSE k \in S : TRUE
         IN  AddQ(mk.regions[i].Circ.v, CircSumOver(S \ {i}))

-----------------------------------------------------------------------------
(* The background statistics of the region filter *)

\* The pixels that belong to a detected region, before any filtering.
DetectedUnion == {i \in Pixels(labels) : labels[i] > 0}

\* C17 as the specification states it: the background statistics the
\* filter uses are taken over exactly the pixels of the reference channel
\* that belong to no detected region, and over the whole image only when
\* nothing was detected.
C17_AsStated ==
    Filtered =>
        LET S == IF Detected(labels) = {} THEN Pixels(dapi_img)
                 ELSE Pixels(dapi_img) \ DetectedUnion
        IN  /\ BgStats.n = Cardinality(S)
            /\ BgStats.B = SumOver(dapi_img, S)
            /\ BgStats.Q = SumSqOver(dapi_img, S)

-----------------------------------------------------------------------------
(* Driving the morphology summary *)

MorphScripts == {"NIA", "VSC", "SO"}

\* NucleiInsideAOi.py: a region has no mask, a mask in which the analyzer
\* finds nothing, or a mask with one particle and its "Circ." value.
\* nuclei_stardist_vscode.py: a region has an area and a perimeter.
\* nuclei_stardist_sorted.py: a region has its "Circ." value of the table.
MorphRegions(sc) ==
    CASE sc = "NIA" ->
            [mask : {"none", "empty"}, Circ : {NaN}, in_aoi : BOOLEAN] \cup
            [mask : {"particle"}, Circ : Circs \ {NaN}, in_aoi : BOOLEAN]
      [] sc = "VSC" -> [area : {1, 2}, perimeter : {0, 2, 4}]
      [] OTHER      -> [Circ : Circs \ {NaN}]

InitMorph ==
    /\ \E sc \in MorphScripts, n \in 0..MaxKept :
          \E rs \in [1..n -> MorphRegions(sc)] :
             mo = [script |-> sc, regions |-> rs]
    /\ mo_phase = "start"
    /\ mo_circ = <<>>
    /\ mo_row = [written |-> FALSE]
    /\ RescaleIdle
    /\ IterIdle
    /\ FilterIdle
    /\ BatchIdle
    /\ ScaleIdle
    /\ MeasureIdle
    /\ MarkerIdle
    /\ ChannelIdle
    /\ CsvIdle
    /\ ThresholdIdle
    /\ PrepIdle
    /\ ReleaseIdle
    /\ SeriesIdle
    /\ AreaIdle
    /\ IntensityIdle
    /\ SplitIdle

\* The filter loop stores each kept region's circularity.
StoreCirc ==
    /\ mo_phase = "start"
    /\ mo_circ' = [i \in 1..Len(mo.regions) |->
                      stored_circ(mo.script, mo.regions[i])]
    /\ mo_phase' = "measured"
    /\ UNCHANGED <<mo, mo_row>>
    /\ UNCHANGED <<rescaleVars, iterVars, filterVars, batchVars, scaleVars,
                   measureVars, markerVars, channelVars, csvVars,
                   thresholdVars,
                   prepVars,
                   releaseVars,
                   seriesVars,
                   areaVars,
                   intensityVars,
                   splitVars>>

\* The summary row with the mean circularity.
MorphRow ==
    /\ mo_phase = "measured"
    /\ mo_row' = [written |-> TRUE, N_ROIs |-> Len(mo_circ),
                  Mean_Circ |-> mean_circ_of(mo.script, mo_circ)]
    /\ mo_phase' = "done"
    /\ UNCHANGED <<mo, mo_circ>>
    /\ UNCHANGED <<rescaleVars, iterVars, filterVars, batchVars, scaleVars,
                   measureVars, markerVars, channelVars, csvVars,
                   thresholdVars,
                   prepVars,
                   releaseVars,
                   seriesVars,
                   areaVars,
                   intensityVars,
                   splitVars>>

NextMorph ==
    \/ StoreCirc
    \/ MorphRow

SpecMorph == InitMorph /\ [][NextMorph]_vars

-----------------------------------------------------------------------------
(* Claims on the morphology summary *)

\* The regions whose circularity is undefined: no or an empty mask, or a
\* zero perimeter.
Degenerate(i) ==
    CASE mo.script = "NIA" -> mo.regions[i].mask # "particle"
      [] mo.script = "VSC" -> mo.regions[i].perimeter = 0
      [] OTHER             -> FALSE

Defined == {i \in 1..Len(mo.regions) : ~Degenerate(i)}

RECURSIVE StoredSumOver(_)
StoredSumOver(S) ==
    IF S = {} THEN <<0, 1>>
    ELSE LET i == CHOOSE k \in S : TRUE
         IN  AddQ(mo_circ[i].v, StoredSumOver(S \ {i}))

\* C18 as the specification states it: the circularity stored for a
\* degenerate region is NaN, never 0, and the mean circularity of the
\* summary row is the sum over the regions with a defined circularity
\* divided by their number.
C18_AsStated ==
    mo_phase \in {"measured", "done"} =>
        /\ \A i \in 1..Len(mo.regions) : Degenerate(i) => mo_circ[i].nan
        /\ (mo_phase = "done" /\ Defined # {}) =>
              mo_row.Mean_Circ =
                  Num(MeanOrZero(StoredSumOver(Defined), Cardinality(Defined)))

\* What holds in NucleiInsideAOi.py: a region without a particle in its
\* mask gets NaN, and the mean is over the other regions.
C18_HoldsInNIA ==
    (mo.script = "NIA" /\ mo_phase \in {"measured", "done"}) =>
        /\ \A i \in 1..Len(mo.regions) : Degenerate(i) => mo_circ[i].nan
        /\ (mo_phase = "done" /\ Defined # {}) =>
              mo_row.Mean_Circ =
                  Num(MeanOrZero(StoredSumOver(Defined), Cardinality(Defined)))

-----------------------------------------------------------------------------
(* Driving the choice of channels *)

WindowCounts == {0, 1, 2}

ChannelScripts == {"NIA", "PAPN", "PN"}

Windows == [dapi : BOOLEAN, marker : BOOLEAN, aoi : BOOLEAN]

InitChannels ==
    /\ \E sc \in ChannelScripts, n \in WindowCounts :
          \E ws \in [1..n -> Windows], br \in 1..Max(n, 1) :
             ch = [script |-> sc, windows |-> ws, brightest |-> br]
    /\ ch_phase = "start"
    /\ ch_sel = NoSel
    /\ ch_rows = FALSE
    /\ RescaleIdle
    /\ IterIdle
    /\ FilterIdle
    /\ BatchIdle
    /\ ScaleIdle
    /\ MeasureIdle
    /\ MarkerIdle
    /\ MorphIdle
    /\ CsvIdle
    /\ ThresholdIdle
    /\ PrepIdle
    /\ ReleaseIdle
    /\ SeriesIdle
    /\ AreaIdle
    /\ IntensityIdle
    /\ SplitIdle

\* The start of process_series: the channels are chosen or the series is
\* given up.
PickChannels ==
    /\ ch_phase = "start"
    /\ ch_sel' = choose_channels(ch.script, ch.windows, ch.brightest)
    /\ ch_phase' = "picked"
    /\ UNCHANGED <<ch, ch_rows>>
    /\ UNCHANGED <<rescaleVars, iterVars, filterVars, batchVars, scaleVars,
                   measureVars, markerVars, morphVars, csvVars,
                   thresholdVars,
                   prepVars,
                   releaseVars,
                   seriesVars,
                   areaVars,
                   intensityVars,
                   splitVars>>

\* The rest of process_series: a series not given up is segmented, and its
\* rows are written when regions are kept.
RunSeries ==
    /\ ch_phase = "picked"
    /\ \E k \in {0} \cup KeptCounts :
          ch_rows' = (~ch_sel.skipped /\ k > 0)
    /\ ch_phase' = "done"
    /\ UNCHANGED <<ch, ch_sel>>
    /\ UNCHANGED <<rescaleVars, iterVars, filterVars, batchVars, scaleVars,
                   measureVars, markerVars, morphVars, csvVars,
                   thresholdVars,
                   prepVars,
                   releaseVars,
                   seriesVars,
                   areaVars,
                   intensityVars,
                   splitVars>>

NextChannels ==
    \/ PickChannels
    \/ RunSeries

SpecChannels == InitChannels /\ [][NextChannels]_vars

-----------------------------------------------------------------------------
(* Claims on the choice of channels *)

NoWindowMatches(field) == \A i \in 1..Len(ch.windows) : ~ch.windows[i][field]

\* A channel the script needs has no window whose title matches.
RequiredMissing ==
    \/ NoWindowMatches("dapi")
    \/ ch.script \in {"PAPN", "PN"} /\ NoWindowMatches("marker")
    \/ ch.script \in {"NIA", "PAPN"} /\ NoWindowMatches("aoi")

\* C19 as the specification states it: a series in which no channel
\* matches the patterns of a required channel is skipped, and no
\* measurement row is written for it.
C19_AsStated ==
    (ch_phase \in {"picked", "done"} /\ RequiredMissing) =>
        /\ ch_sel.skipped
        /\ ~ch_rows

-----------------------------------------------------------------------------
(* Driving the CSV sink *)

MaxCalls == 4      \* at most this many export calls on the file

ExportFunctions == {"export_csv", "export_intensity", "export_counts"}

\* Where a call may raise: nowhere, at the write of the header, or at the
\* write of the row.
RaisePoints == {"none", "header", "row"}

InitCsv ==
    /\ csv_fn \in ExportFunctions
    /\ csv_exists = FALSE
    /\ csv_lines = <<>>
    /\ csv_open = 0
    /\ csv_calls = <<>>
    /\ RescaleIdle
    /\ IterIdle
    /\ FilterIdle
    /\ BatchIdle
    /\ ScaleIdle
    /\ MeasureIdle
    /\ MarkerIdle
    /\ MorphIdle
    /\ ChannelIdle
    /\ ThresholdIdle
    /\ PrepIdle
    /\ ReleaseIdle
    /\ SeriesIdle
    /\ AreaIdle
    /\ IntensityIdle
    /\ SplitIdle

\* One export call, for the next row.
Export ==
    /\ Len(csv_calls) < MaxCalls
    /\ \E raises \in RaisePoints :
          /\ raises = "header" => ~csv_exists
          /\ LET r == Len(csv_calls) + 1
                 after == export(csv_fn, csv_exists, csv_lines, csv_open,
                                 r, raises)
             IN  /\ csv_exists' = after.exists
                 /\ csv_lines' = after.lines
                 /\ csv_open' = after.open
                 /\ csv_calls' = Append(csv_calls,
                                        [row |-> r, raised |-> raises])
    /\ UNCHANGED csv_fn
    /\ UNCHANGED <<rescaleVars, iterVars, filterVars, batchVars, scaleVars,
                   measureVars, markerVars, morphVars, channelVars,
                   thresholdVars,
                   prepVars,
                   releaseVars,
                   seriesVars,
                   areaVars,
                   intensityVars,
                   splitVars>>

NextCsv == Export

SpecCsv == InitCsv /\ [][NextCsv]_vars

-----------------------------------------------------------------------------
(* Claims on the CSV sink *)

\* The rows of the calls that did not raise, in call order.
RowsExported ==
    LET Ok(c) == c.raised = "none"
        ok == SelectSeq(csv_calls, Ok)
    IN  [i \in 1..Len(ok) |-> RowLine(ok[i].row)]

\* C20 as the specification states it: after any sequence of export calls
\* on a path that did not exist, the file is the header line once, as its
\* first line, followed by the rows in call order, and no writer is left
\* open, also when a write raised.
C20_AsStated ==
    (csv_fn # "none" /\ csv_calls # <<>>) =>
        /\ csv_lines = <<HeaderLine>> \o RowsExported
        /\ csv_open = 0

\* What holds for export_csv and export_counts, which close the writer in
\* a finally or with block: no writer is left open, and the file is the
\* header and the rows unless the write of the header raised.
C20_HoldsWhenClosing ==
    (closes_on_raise(csv_fn) /\ csv_calls # <<>>) =>
        /\ csv_open = 0
        /\ csv_calls[1].raised # "header" =>
               csv_lines = <<HeaderLine>> \o RowsExported

\* No line of the file is ever changed or removed.
C20_AppendOnly ==
    [][/\ Len(csv_lines') >= Len(csv_lines)
       /\ SubSeq(csv_lines', 1, Len(csv_lines)) = csv_lines]_vars

-----------------------------------------------------------------------------
(* Driving the marker thresholds *)

KeyCounts == {1, 2}

FixedThresholds == {100, 200}

MarkerWindowCounts == {1, 2, 3}

InitThreshold ==
    /\ \E k \in KeyCounts :
          /\ marker_fixed \in [1..k -> FixedThresholds]
          /\ \E n \in MarkerWindowCounts :
                mt_windows \in [1..n -> SUBSET (1..k)]
    /\ mt_phase = "start"
    /\ mt_markers = <<>>
    /\ marker_preps = <<>>
    /\ RescaleIdle
    /\ IterIdle
    /\ FilterIdle
    /\ BatchIdle
    /\ ScaleIdle
    /\ MeasureIdle
    /\ MarkerIdle
    /\ MorphIdle
    /\ ChannelIdle
    /\ CsvIdle
    /\ PrepIdle
    /\ ReleaseIdle
    /\ SeriesIdle
    /\ AreaIdle
    /\ IntensityIdle
    /\ SplitIdle

\* The loop over the windows that collects the marker channels.
CollectMarkers ==
    /\ mt_phase = "start"
    /\ mt_markers' = markers_of(mt_windows)
    /\ mt_phase' = "collected"
    /\ UNCHANGED <<marker_fixed, mt_windows, marker_preps>>
    /\ UNCHANGED <<rescaleVars, iterVars, filterVars, batchVars, scaleVars,
                   measureVars, markerVars, morphVars, channelVars, csvVars,
                   prepVars,
                   releaseVars,
                   seriesVars,
                   areaVars,
                   intensityVars,
                   splitVars>>

\* The loop that pairs each marker channel with a threshold.
PrepareMarkers ==
    /\ mt_phase = "collected"
    /\ marker_preps' = marker_preps_of(mt_markers, marker_fixed)
    /\ mt_phase' = "prepared"
    /\ UNCHANGED <<marker_fixed, mt_windows, mt_markers>>
    /\ UNCHANGED <<rescaleVars, iterVars, filterVars, batchVars, scaleVars,
                   measureVars, markerVars, morphVars, channelVars, csvVars,
                   prepVars,
                   releaseVars,
                   seriesVars,
                   areaVars,
                   intensityVars,
                   splitVars>>

NextThreshold ==
    \/ CollectMarkers
    \/ PrepareMarkers

SpecThreshold == InitThreshold /\ [][NextThreshold]_vars

-----------------------------------------------------------------------------
(* Claims on the marker thresholds *)

\* The identifier a window's title matched: the first of the configured
\* identifiers that it contains.
MatchedKey(w) == CHOOSE k \in mt_windows[w] : \A j \in mt_windows[w] : k <= j

\* C21 as the specification states it: the threshold applied to a marker
\* channel is the one configured for the identifier its title matched,
\* whatever the order of the windows.
C21_AsStated ==
    mt_phase = "prepared" =>
        \A i \in 1..Len(marker_preps) :
            marker_preps[i].thr = marker_fixed[MatchedKey(marker_preps[i].window)]

-----------------------------------------------------------------------------
(* Driving the preprocessing *)

PrepKinds == {"NIA_AOI", "PAPN_AOI", "PAPN_MARKER", "PN_MARKER"}

MedianRadii == {0, 2}

RollingRepeats == {0, 1, 2}

PrepThresholds == {100, 1000}

\* An 8-bit channel, or a 12-bit one stored in 16 bits.
PrepChannels ==
    [bits : {8}, hi : {255}, v : {0, 100, 200}, bg : {0, 100}] \cup
    [bits : {16}, hi : {4095}, v : {0, 100, 200, 1000, 4000}, bg : {0, 100}]

InitPrep ==
    /\ \E k \in PrepKinds, a \in BOOLEAN, m \in MedianRadii,
          n \in RollingRepeats, t \in PrepThresholds, c \in PrepChannels :
          /\ ~a => (m = 0 /\ n = 0)
          /\ pp = [kind |-> k, APPLY_BG |-> a, MEDIAN_RADIUS |-> m,
                   ROLLING_REPEAT |-> n, thr |-> t, bits |-> c.bits,
                   hi |-> c.hi, v |-> c.v, bg |-> c.bg]
    /\ pp_pc = "start"
    /\ pp_left = 0
    /\ pp_img = NoImg
    /\ pp_ops = <<>>
    /\ pp_fg = FALSE
    /\ RescaleIdle
    /\ IterIdle
    /\ FilterIdle
    /\ BatchIdle
    /\ ScaleIdle
    /\ MeasureIdle
    /\ MarkerIdle
    /\ MorphIdle
    /\ ChannelIdle
    /\ CsvIdle
    /\ ThresholdIdle
    /\ ReleaseIdle
    /\ SeriesIdle
    /\ AreaIdle
    /\ IntensityIdle
    /\ SplitIdle

\* The channel is duplicated and, in the scripts that do so, converted.
PrepDuplicate ==
    /\ pp_pc = "start"
    /\ LET dup == [value |-> pp.v, bg |-> pp.bg, gray8 |-> FALSE]
       IN  pp_img' = IF converts_duplicate(pp.kind)
                     THEN ensure_gray8(dup, pp.bits, pp.hi)
                     ELSE dup
    /\ pp_ops' = IF converts_duplicate(pp.kind) /\ pp.bits # 8
                 THEN <<"duplicate", "gray8">> ELSE <<"duplicate">>
    /\ pp_pc' = IF runs_background(pp.kind, pp.APPLY_BG) THEN "median"
                ELSE "threshold"
    /\ UNCHANGED <<pp, pp_left, pp_fg>>
    /\ UNCHANGED <<rescaleVars, iterVars, filterVars, batchVars, scaleVars,
                   measureVars, markerVars, morphVars, channelVars, csvVars,
                   thresholdVars,
                   releaseVars,
                   seriesVars,
                   areaVars,
                   intensityVars,
                   splitVars>>

\* if MEDIAN_RADIUS > 0: "Median..."; then the rolling loop is entered.
PrepMedian ==
    /\ pp_pc = "median"
    /\ pp_ops' = IF pp.MEDIAN_RADIUS > 0 THEN Append(pp_ops, "median")
                 ELSE pp_ops
    /\ pp_left' = rolling_passes(pp.ROLLING_REPEAT)
    /\ pp_pc' = IF rolling_passes(pp.ROLLING_REPEAT) > 0 THEN "rolling"
                ELSE "threshold"
    /\ UNCHANGED <<pp, pp_img, pp_fg>>
    /\ UNCHANGED <<rescaleVars, iterVars, filterVars, batchVars, scaleVars,
                   measureVars, markerVars, morphVars, channelVars, csvVars,
                   thresholdVars,
                   releaseVars,
                   seriesVars,
                   areaVars,
                   intensityVars,
                   splitVars>>

\* One pass of the rolling loop.
PrepRolling ==
    /\ pp_pc = "rolling"
    /\ pp_left > 0
    /\ pp_img' = subtract_background(pp_img)
    /\ pp_ops' = Append(pp_ops, "rolling")
    /\ pp_left' = pp_left - 1
    /\ pp_pc' = IF pp_left = 1 THEN "threshold" ELSE "rolling"
    /\ UNCHANGED <<pp, pp_fg>>
    /\ UNCHANGED <<rescaleVars, iterVars, filterVars, batchVars, scaleVars,
                   measureVars, markerVars, morphVars, channelVars, csvVars,
                   thresholdVars,
                   releaseVars,
                   seriesVars,
                   areaVars,
                   intensityVars,
                   splitVars>>

\* The fixed threshold: setThreshold(thr, infinity) and "Convert to Mask",
\* or get(gx, gy) >= thr in the marker loops.
PrepThreshold ==
    /\ pp_pc = "threshold"
    /\ pp_fg' = (pp_img.value >= pp.thr)
    /\ pp_ops' = Append(pp_ops, "threshold")
    /\ pp_pc' = "done"
    /\ UNCHANGED <<pp, pp_left, pp_img>>
    /\ UNCHANGED <<rescaleVars, iterVars, filterVars, batchVars, scaleVars,
                   measureVars, markerVars, morphVars, channelVars, csvVars,
                   thresholdVars,
                   releaseVars,
                   seriesVars,
                   areaVars,
                   intensityVars,
                   splitVars>>

NextPrep ==
    \/ PrepDuplicate
    \/ PrepMedian
    \/ PrepRolling
    \/ PrepThreshold

SpecPrep == InitPrep /\ [][NextPrep]_vars

-----------------------------------------------------------------------------
(* Claims on the preprocessing *)

OpsOf(what) == {i \in 1..Len(pp_ops) : pp_ops[i] = what}

BackgroundEnabled == runs_background(pp.kind, pp.APPLY_BG)

\* C22 as the specification states it: with background subtraction
\* enabled, the median runs before every rolling pass and the rolling
\* subtraction runs exactly ROLLING_REPEAT times, also for 0.
C22_AsStated ==
    (pp_pc = "done" /\ BackgroundEnabled) =>
        /\ \A i \in OpsOf("median"), j \in OpsOf("rolling") : i < j
        /\ Cardinality(OpsOf("rolling")) = pp.ROLLING_REPEAT

\* C22: with background subtraction enabled, the median (run exactly when
\* its radius is positive) comes before every rolling pass, and the
\* rolling subtraction runs max(1, ROLLING_REPEAT) times: once when the
\* repeat count is 0.
C22_MedianThenRolling ==
    (pp_pc = "done" /\ BackgroundEnabled) =>
        /\ \A i \in OpsOf("median"), j \in OpsOf("rolling") : i < j
        /\ Cardinality(OpsOf("median")) = IF pp.MEDIAN_RADIUS > 0 THEN 1 ELSE 0
        /\ Cardinality(OpsOf("rolling")) =
              IF pp.ROLLING_REPEAT >= 1 THEN pp.ROLLING_REPEAT ELSE 1

\* The repeat count is 0, the median radius positive: the median ran and
\* then one rolling pass.
C22_Witness ==
    /\ pp_pc = "done"
    /\ BackgroundEnabled
    /\ pp.ROLLING_REPEAT = 0
    /\ pp.MEDIAN_RADIUS > 0
    /\ OpsOf("median") # {}
    /\ Cardinality(OpsOf("rolling")) = 1

\* The pixel's preprocessed intensity in the value range of the channel
\* as read.
OriginalRangeValue ==
    IF OpsOf("rolling") # {} THEN Max(0, pp.v - pp.bg) ELSE pp.v

\* C23 as the specification states it: the pixel is foreground exactly
\* when its preprocessed intensity in the original value range is at least
\* the fixed threshold, and the duplicate's value range was not converted
\* before the comparison.
C23_AsStated ==
    pp_pc = "done" =>
        /\ pp_fg <=> (OriginalRangeValue >= pp.thr)
        /\ ~pp_img.gray8

\* What holds in Positiv_negativ.py, which never converts the duplicate.
C23_HoldsInPN ==
    (pp_pc = "done" /\ pp.kind = "PN_MARKER") =>
        /\ pp_fg <=> (OriginalRangeValue >= pp.thr)
        /\ ~pp_img.gray8

-----------------------------------------------------------------------------
(* Driving one process_series call *)

ChannelCounts == {0, 1, 2, 3}

ReleaseCalls ==
    [n : ChannelCounts, aoi : BOOLEAN, rois : BOOLEAN, processor : BOOLEAN,
     any_kept : BOOLEAN]

InitRelease ==
    /\ rel \in ReleaseCalls
    /\ rel_pc = "start"
    /\ series_wins = <<>>
    /\ rel_open = {}
    /\ RescaleIdle
    /\ IterIdle
    /\ FilterIdle
    /\ BatchIdle
    /\ ScaleIdle
    /\ MeasureIdle
    /\ MarkerIdle
    /\ MorphIdle
    /\ ChannelIdle
    /\ CsvIdle
    /\ ThresholdIdle
    /\ PrepIdle
    /\ SeriesIdle
    /\ AreaIdle
    /\ IntensityIdle
    /\ SplitIdle

\* imp.show(), "Split Channels", list_series_images; no window listed:
\* the series image is closed and the call returns.
SplitAndList ==
    /\ rel_pc = "start"
    /\ series_wins' = windows_after_split(rel.n)
    /\ IF rel.n = 0
       THEN /\ rel_open' = open_after_split(rel.n) \ {SeriesImage}
            /\ rel_pc' = "returned"
       ELSE /\ rel_open' = open_after_split(rel.n)
            /\ rel_pc' = "stardist"
    /\ UNCHANGED rel
    /\ UNCHANGED <<rescaleVars, iterVars, filterVars, batchVars, scaleVars,
                   measureVars, markerVars, morphVars, channelVars, csvVars,
                   thresholdVars, prepVars,
                   seriesVars,
                   areaVars,
                   intensityVars,
                   splitVars>>

\* The DAPI duplicate and the working image are shown and StarDist runs;
\* without ROIs the call returns.
RunStarDist ==
    /\ rel_pc = "stardist"
    /\ LET shown == rel_open \cup {DapiDisp, WorkImage}
       IN  IF ~rel.rois
           THEN /\ rel_open' = close_in_loop_and_return(series_wins,
                                   shown \ {WorkImage, DapiDisp})
                /\ rel_pc' = "returned"
           ELSE /\ rel_open' = shown
                /\ rel_pc' = "background"
    /\ UNCHANGED <<rel, series_wins>>
    /\ UNCHANGED <<rescaleVars, iterVars, filterVars, batchVars, scaleVars,
                   measureVars, markerVars, morphVars, channelVars, csvVars,
                   thresholdVars, prepVars,
                   seriesVars,
                   areaVars,
                   intensityVars,
                   splitVars>>

\* dapi.getProcessor(); without a processor the call returns.
ReadBackground ==
    /\ rel_pc = "background"
    /\ rel_pc' = IF rel.processor THEN "filter" ELSE "returned"
    /\ UNCHANGED <<rel, series_wins, rel_open>>
    /\ UNCHANGED <<rescaleVars, iterVars, filterVars, batchVars, scaleVars,
                   measureVars, markerVars, morphVars, channelVars, csvVars,
                   thresholdVars, prepVars,
                   seriesVars,
                   areaVars,
                   intensityVars,
                   splitVars>>

\* The AOI duplicate is shown when there is an AOI channel; the regions
\* are filtered; with none kept the call returns.
FilterRegions ==
    /\ rel_pc = "filter"
    /\ LET shown == IF rel.aoi THEN rel_open \cup {AoiProc}
                    ELSE rel_open
       IN  IF ~rel.any_kept
           THEN /\ rel_open' = close_in_loop_and_return(series_wins,
                                   shown \ {WorkImage, DapiDisp})
                /\ rel_pc' = "returned"
           ELSE /\ rel_open' = shown
                /\ rel_pc' = "cleanup"
    /\ UNCHANGED <<rel, series_wins>>
    /\ UNCHANGED <<rescaleVars, iterVars, filterVars, batchVars, scaleVars,
                   measureVars, markerVars, morphVars, channelVars, csvVars,
                   thresholdVars, prepVars,
                   seriesVars,
                   areaVars,
                   intensityVars,
                   splitVars>>

\* The end of the function ("Aufraeumen").
CleanUp ==
    /\ rel_pc = "cleanup"
    /\ rel_open' = close_all(series_wins,
                       rel_open \ {AoiProc, WorkImage, DapiDisp})
                   \ {SeriesImage}
    /\ rel_pc' = "returned"
    /\ UNCHANGED <<rel, series_wins>>
    /\ UNCHANGED <<rescaleVars, iterVars, filterVars, batchVars, scaleVars,
                   measureVars, markerVars, morphVars, channelVars, csvVars,
                   thresholdVars, prepVars,
                   seriesVars,
                   areaVars,
                   intensityVars,
                   splitVars>>

NextRelease ==
    \/ SplitAndList
    \/ RunStarDist
    \/ ReadBackground
    \/ FilterRegions
    \/ CleanUp

SpecRelease == InitRelease /\ [][NextRelease]_vars

-----------------------------------------------------------------------------
(* Claims on the release of images *)

\* The images the series must have closed when the call returns.
SeriesResources ==
    {WorkImage, SeriesImage} \cup {ChannelWindow(i) : i \in 1..rel.n}

\* C24 as the specification states it: whenever process_series has
\* returned, the working-resolution image, every channel window of the
\* series and the series image are closed.
C24_AsStated ==
    rel_pc = "returned" => rel_open \cap SeriesResources = {}

\* What holds: the call that runs to its end closes them all.
C24_HoldsOnCompletion ==
    (rel_pc = "returned" /\ rel.n >= 1 /\ rel.rois /\ rel.processor
        /\ rel.any_kept) => rel_open = {}

-----------------------------------------------------------------------------
(* Driving a batch of series *)

\* "1", "10", "2"
SeriesNames == {<<1>>, <<1, 0>>, <<2>>}

SeriesOrders ==
    {<<a>> : a \in SeriesNames} \cup
    {o \in {<<a, b>> : a \in SeriesNames, b \in SeriesNames} : o[1] # o[2]}

ChannelsPerSeries == {2, 3}

ConfiguredThresholds == {<<>>, <<500>>, <<500, 800>>}

InitSeries ==
    /\ \E o \in SeriesOrders, f \in ConfiguredThresholds, s \in BOOLEAN :
          \E nch \in [1..Len(o) -> ChannelsPerSeries] :
              /\ ser = [order |-> o, nch |-> nch, fixed |-> f,
                        SHOW_AT_END |-> s]
              /\ ser_fixed = f
    /\ ser_i = 1
    /\ ser_open = <<>>
    /\ ser_rows = <<>>
    /\ RescaleIdle
    /\ IterIdle
    /\ FilterIdle
    /\ BatchIdle
    /\ ScaleIdle
    /\ MeasureIdle
    /\ MarkerIdle
    /\ MorphIdle
    /\ ChannelIdle
    /\ CsvIdle
    /\ ThresholdIdle
    /\ PrepIdle
    /\ ReleaseIdle
    /\ AreaIdle
    /\ IntensityIdle
    /\ SplitIdle

\* One iteration of the main loop: marker_list = [] and process_series.
ProcessSeries ==
    /\ ser_i >= 1
    /\ ser_i <= Len(ser.order)
    /\ LET r == process_series(ser.order[ser_i], ser.nch[ser_i], ser_open,
                               ser_fixed, ser.SHOW_AT_END)
       IN  /\ ser_open' = r.open
           /\ ser_fixed' = r.fixed
           /\ ser_rows' = Append(ser_rows, r.row)
    /\ ser_i' = ser_i + 1
    /\ UNCHANGED ser
    /\ UNCHANGED <<rescaleVars, iterVars, filterVars, batchVars, scaleVars,
                   measureVars, markerVars, morphVars, channelVars, csvVars,
                   thresholdVars, prepVars, releaseVars,
                   areaVars,
                   intensityVars,
                   splitVars>>

NextSeries == ProcessSeries

SpecSeries == InitSeries /\ [][NextSeries]_vars

-----------------------------------------------------------------------------
(* Claims on the independence of series *)

\* What the rows of the series at position i are computed from when it is
\* the only series of the batch.
RowAlone(i) ==
    process_series(ser.order[i], ser.nch[i], <<>>, ser.fixed,
                   ser.SHOW_AT_END).row

\* C25 as the specification states it: the rows of a series depend on its
\* own channels and the configuration only; a series processed earlier in
\* the batch does not change them.
C25_AsStated ==
    \A i \in 1..Len(ser_rows) : ser_rows[i] = RowAlone(i)

\* What holds: the thresholds used do not depend on the earlier series,
\* and nothing does when the windows are closed after each series.
C25_HoldsForThresholds ==
    \A i \in 1..Len(ser_rows) :
        /\ Len(ser_rows[i].marker_rows) = Len(RowAlone(i).marker_rows)
           => \A k \in 1..Len(ser_rows[i].marker_rows) :
                  ser_rows[i].marker_rows[k].thr = RowAlone(i).marker_rows[k].thr
        /\ ~ser.SHOW_AT_END => ser_rows[i] = RowAlone(i)

-----------------------------------------------------------------------------
(* Claims on the counts rows *)

\* q = 100 * pos / den, or 0 when den = 0, and q lies in [0, 100].
IsPercentOf(q, pos, den) ==
    /\ q[2] > 0
    /\ IF den = 0 THEN q[1] = 0 ELSE q[1] * den = 100 * pos * q[2]
    /\ q[1] >= 0
    /\ q[1] <= 100 * q[2]

\* C26: in every per-marker counts row N_total = Positive + Negative and
\* N_total is at most the number of kept regions; Percent_Positive is
\* 100 * Positive / N_total, within [0, 100], and 0 when N_total is 0; in
\* positivearea_Positivnegativ.py also Pos_in_AOI <= Positive,
\* Neg_in_AOI <= Negative and Percent_Positive_in_AOI is
\* 100 * Pos_in_AOI / (Pos_in_AOI + Neg_in_AOI), 0 without a region in
\* the AOI.
C26_CountsConsistent ==
    \A r \in CountsRows :
        /\ r.N_total = r.Positive + r.Negative
        /\ r.Positive >= 0
        /\ r.Negative >= 0
        /\ r.N_total <= Len(mk.regions)
        /\ IsPercentOf(r.Percent_Positive, r.Positive, r.N_total)
        /\ mk.script = "PAPN" =>
              /\ r.Pos_in_AOI >= 0
              /\ r.Neg_in_AOI >= 0
              /\ r.Pos_in_AOI <= r.Positive
              /\ r.Neg_in_AOI <= r.Negative
              /\ IsPercentOf(r.Percent_Positive_in_AOI, r.Pos_in_AOI,
                             r.Pos_in_AOI + r.Neg_in_AOI)

\* A counts row of positivearea_Positivnegativ.py with one positive and
\* one negative region, the positive one inside the AOI: 50 % and 100 %.
C26_Witness ==
    /\ mk_phase = "done"
    /\ mk.script = "PAPN"
    /\ \E r \in CountsRows :
          /\ r.Positive = 1
          /\ r.Negative = 1
          /\ r.Pos_in_AOI = 1
          /\ r.Neg_in_AOI = 0
          /\ r.Percent_Positive = <<50, 1>>
          /\ r.Percent_Positive_in_AOI = <<100, 1>>

\* A counts row whose denominators are 0: no region has a pixel in the
\* marker channel.
C26_WitnessZero ==
    /\ mk_phase = "done"
    /\ \E r \in CountsRows :
          /\ r.N_total = 0
          /\ r.N_total < Len(mk.regions)
          /\ r.Percent_Positive = <<0, 1>>

-----------------------------------------------------------------------------
(* Driving the area accumulators *)

MaxWellSeries == 2     \* at most this many series in the file

AreaValues == {0, 5}

AreaThresholds == {5}

\* A series of two pixels; one without a total or positive channel.
AreaSeries ==
    [missing : {FALSE}, t_ip : [1..2 -> AreaValues], p_ip : [1..2 -> AreaValues]]
    \cup {[missing |-> TRUE, t_ip |-> <<0, 0>>, p_ip |-> <<0, 0>>]}

InitArea ==
    /\ \E n \in 1..MaxWellSeries, t \in AreaThresholds, p \in AreaThresholds :
          \E ss \in [1..n -> AreaSeries] :
              area_file = [series |-> ss, T_FIXED |-> t, P_FIXED |-> p]
    /\ area_i = 1
    /\ well_total_area = 0
    /\ well_pos_area = 0
    /\ area_rows = <<>>
    /\ well_rows = <<>>
    /\ RescaleIdle
    /\ IterIdle
    /\ FilterIdle
    /\ BatchIdle
    /\ ScaleIdle
    /\ MeasureIdle
    /\ MarkerIdle
    /\ MorphIdle
    /\ ChannelIdle
    /\ CsvIdle
    /\ ThresholdIdle
    /\ PrepIdle
    /\ ReleaseIdle
    /\ SeriesIdle
    /\ IntensityIdle
    /\ SplitIdle

\* One pass of the series loop: a series without its channels is skipped,
\* any other writes its row and is added to the accumulators.
MeasureSeriesArea ==
    /\ area_i >= 1
    /\ area_i <= Len(area_file.series)
    /\ LET s == area_file.series[area_i]
           row == area_row(s, area_file.T_FIXED, area_file.P_FIXED)
       IN  IF s.missing
           THEN UNCHANGED <<well_total_area, well_pos_area, area_rows>>
           ELSE /\ area_rows' = Append(area_rows, row)
                /\ well_total_area' = well_total_area + row.Total_Area_px
                /\ well_pos_area' = well_pos_area + row.Positive_Area_px
    /\ area_i' = area_i + 1
    /\ UNCHANGED <<area_file, well_rows>>
    /\ UNCHANGED <<rescaleVars, iterVars, filterVars, batchVars, scaleVars,
                   measureVars, markerVars, morphVars, channelVars, csvVars,
                   thresholdVars, prepVars, releaseVars, seriesVars,
                   intensityVars,
                   splitVars>>

\* After the series loop: the per-well row.
WriteWellRow ==
    /\ area_i = Len(area_file.series) + 1
    /\ well_rows = <<>>
    /\ well_rows' = <<[Total_Area_px |-> well_total_area,
                       Positive_Area_px |-> well_pos_area,
                       Percent_Positive |->
                           Percent(well_pos_area, well_total_area)]>>
    /\ UNCHANGED <<area_file, area_i, well_total_area, well_pos_area,
                   area_rows>>
    /\ UNCHANGED <<rescaleVars, iterVars, filterVars, batchVars, scaleVars,
                   measureVars, markerVars, morphVars, channelVars, csvVars,
                   thresholdVars, prepVars, releaseVars, seriesVars,
                   intensityVars,
                   splitVars>>

NextArea ==
    \/ MeasureSeriesArea
    \/ WriteWellRow

SpecArea == InitArea /\ [][NextArea]_vars

-----------------------------------------------------------------------------
(* Claims on the area accumulators *)

RECURSIVE SumOfField(_, _)
SumOfField(rws, field) ==
    IF rws = <<>> THEN 0 ELSE Head(rws)[field] + SumOfField(Tail(rws), field)

\* C27: after any prefix of a file's series 0 <= well_pos_area <=
\* well_total_area, the two are the sums of Positive_Area_px and
\* Total_Area_px over the per-series rows written so far, and the per-well
\* row holds them with Percent_Positive = 100 * pos / total, 0 when the
\* total is 0.
C27_AreaAccumulators ==
    /\ 0 <= well_pos_area
    /\ well_pos_area <= well_total_area
    /\ well_total_area = SumOfField(area_rows, "Total_Area_px")
    /\ well_pos_area = SumOfField(area_rows, "Positive_Area_px")
    /\ \A j \in 1..Len(well_rows) :
          /\ well_rows[j].Total_Area_px = well_total_area
          /\ well_rows[j].Positive_Area_px = well_pos_area
          /\ IsPercentOf(well_rows[j].Percent_Positive, well_pos_area,
                         well_total_area)

\* Two series were measured, the first with positive area, the second
\* with total area but none positive; the per-well row is written.
C27_Witness ==
    /\ Len(well_rows) = 1
    /\ Len(area_rows) = 2
    /\ area_rows[1].Positive_Area_px > 0
    /\ area_rows[2].Total_Area_px > 0
    /\ area_rows[2].Positive_Area_px = 0
    /\ well_pos_area < well_total_area
    /\ well_rows[1].Percent_Positive[1] > 0

-----------------------------------------------------------------------------
(* Driving intensity.py *)

RECURSIVE SumOverSeq(_)
SumOverSeq(ns) == IF ns = <<>> THEN 0 ELSE Head(ns) + SumOverSeq(Tail(ns))

FileNames == {<<"a.tif">>, <<"image1.tif">>, <<"x", ",", "y.lif">>}

SeriesPerFile == {1, 2}

MarkersPerSeries == {0, 1, 2}

NucleiCounts == {0, 3}

\* The marker channels of a series with k of them, as sequences of pixel
\* values after the preprocessing.
MarkerChannelsOf(k) == SubSeq(<<<<4, 2>>, <<0, 6>>>>, 1, k)

EffectiveThreshold == 1

\* Who wrote the counts file: nuclei_stardist_sorted.py, or someone who
\* used the names intensity.py looks up.
CountSources == {"sorted", "keyed"}

\* The lines of the counts file for a file of the given per-series counts.
CountLines(fname, counts, src) ==
    <<<<"Image", ",", "Total_Nuclei_Count">>>> \o
    [i \in 1..Len(counts) |->
        export_counts(IF src = "sorted"
                      THEN sorted_title(fname, i, Len(counts))
                      ELSE series_name_raw(fname, i),
                      counts[i])] \o
    (IF src = "sorted"
     THEN <<export_counts(<<"TOTAL_ALL_IMAGES">>, SumOverSeq(counts))>>
     ELSE <<>>)

InitIntensity ==
    /\ \E f \in FileNames, n \in SeriesPerFile, src \in CountSources :
          \E mks \in [1..n -> MarkersPerSeries], cs \in [1..n -> NucleiCounts] :
              inten = [name |-> f, markers |-> mks, counts |-> cs,
                       csv |-> CountLines(f, cs, src), src |-> src]
    /\ inten_pc = "load"
    /\ inten_i = 1
    /\ nuclei_counts_map = <<>>
    /\ total_positive = 0
    /\ total_integrated = 0
    /\ total_nuclei = 0
    /\ inten_rows = <<>>
    /\ inten_well = <<>>
    /\ RescaleIdle
    /\ IterIdle
    /\ FilterIdle
    /\ BatchIdle
    /\ ScaleIdle
    /\ MeasureIdle
    /\ MarkerIdle
    /\ MorphIdle
    /\ ChannelIdle
    /\ CsvIdle
    /\ ThresholdIdle
    /\ PrepIdle
    /\ ReleaseIdle
    /\ SeriesIdle
    /\ AreaIdle
    /\ SplitIdle

\* The counts file is read into nuclei_counts_map.
LoadCounts ==
    /\ inten_pc = "load"
    /\ nuclei_counts_map' = load_counts(<<>>, inten.csv)
    /\ inten_pc' = "series"
    /\ UNCHANGED <<inten, inten_i, total_positive, total_integrated,
                   total_nuclei, inten_rows, inten_well>>
    /\ UNCHANGED <<rescaleVars, iterVars, filterVars, batchVars, scaleVars,
                   measureVars, markerVars, morphVars, channelVars, csvVars,
                   thresholdVars, prepVars, releaseVars, seriesVars, areaVars,
                   splitVars>>

\* One series: its count is looked up and every marker channel measured.
IntensitySeries ==
    /\ inten_pc = "series"
    /\ inten_i <= Len(inten.markers)
    /\ LET series_name_clean == clean_name(series_name_raw(inten.name, inten_i))
           nuclei_count == map_get(nuclei_counts_map, series_name_clean)
           after == marker_loop(MarkerChannelsOf(inten.markers[inten_i]),
                                nuclei_count, EffectiveThreshold,
                                [rws |-> <<>>,
                                 total_positive |-> total_positive,
                                 total_integrated |-> total_integrated,
                                 total_nuclei |-> total_nuclei])
       IN  /\ inten_rows' = inten_rows \o
                  [j \in 1..Len(after.rws) |->
                      [sidx |-> inten_i, row |-> after.rws[j]]]
           /\ total_positive' = after.total_positive
           /\ total_integrated' = after.total_integrated
           /\ total_nuclei' = after.total_nuclei
    /\ inten_i' = inten_i + 1
    /\ UNCHANGED <<inten, inten_pc, nuclei_counts_map, inten_well>>
    /\ UNCHANGED <<rescaleVars, iterVars, filterVars, batchVars, scaleVars,
                   measureVars, markerVars, morphVars, channelVars, csvVars,
                   thresholdVars, prepVars, releaseVars, seriesVars, areaVars,
                   splitVars>>

\* After the series: the per-well row.
IntensityWellRow ==
    /\ inten_pc = "series"
    /\ inten_i = Len(inten.markers) + 1
    /\ inten_well' = <<[Positive_Pixels |-> total_positive,
                        Integrated_Intensity |-> total_integrated,
                        Nuclei_Count |-> total_nuclei,
                        Normalized_Intensity |->
                            MeanOrZero(<<total_integrated, 1>>, total_nuclei)]>>
    /\ inten_pc' = "done"
    /\ UNCHANGED <<inten, inten_i, nuclei_counts_map, total_positive,
                   total_integrated, total_nuclei, inten_rows>>
    /\ UNCHANGED <<rescaleVars, iterVars, filterVars, batchVars, scaleVars,
                   measureVars, markerVars, morphVars, channelVars, csvVars,
                   thresholdVars, prepVars, releaseVars, seriesVars, areaVars,
                   splitVars>>

NextIntensity ==
    \/ LoadCounts
    \/ IntensitySeries
    \/ IntensityWellRow

SpecIntensity == InitIntensity /\ [][NextIntensity]_vars

-----------------------------------------------------------------------------
(* Claims on intensity.py *)

\* The count intensity.py finds for the series at position i.
CountFound(i) ==
    map_get(nuclei_counts_map, clean_name(series_name_raw(inten.name, i)))

\* The sum, over the series with a marker channel, of the count found for
\* the series: each series once.
RECURSIVE CountOncePerSeries(_)
CountOncePerSeries(i) ==
    IF i = 0 THEN 0
    ELSE (IF inten.markers[i] > 0 THEN CountFound(i) ELSE 0)
         + CountOncePerSeries(i - 1)

\* C28 as the specification states it: the Nuclei_Count of the per-well
\* row is the sum of the series' counts, each series counted once however
\* many marker channels it has, and Normalized_Intensity is the integrated
\* intensity divided by that count, 0 when the count is 0.
C28_AsStated ==
    \A j \in 1..Len(inten_well) :
        /\ inten_well[j].Nuclei_Count = CountOncePerSeries(Len(inten.markers))
        /\ inten_well[j].Normalized_Intensity =
              MeanOrZero(<<inten_well[j].Integrated_Intensity, 1>>,
                         CountOncePerSeries(Len(inten.markers)))

\* What holds: the per-well count is the sum of the Nuclei_Count column of
\* the per-channel rows, one term per marker channel.
C28_HoldsPerChannel ==
    \A j \in 1..Len(inten_well) :
        /\ inten_well[j].Nuclei_Count =
              SumOverSeq([k \in 1..Len(inten_rows) |->
                             inten_rows[k].row.Nuclei_Count])
        /\ inten_well[j].Normalized_Intensity =
              MeanOrZero(<<inten_well[j].Integrated_Intensity, 1>>,
                         inten_well[j].Nuclei_Count)

\* C29 as the specification states it: a series whose count the
\* nuclei-counting script wrote under its series title is reported by
\* intensity.py with exactly that count.
C29_AsStated ==
    inten.src = "sorted" =>
        \A k \in 1..Len(inten_rows) :
            inten_rows[k].row.Nuclei_Count = inten.counts[inten_rows[k].sidx]

\* What holds: the count is found when the file names the series the way
\* intensity.py does, unless the line is taken for the header.
C29_HoldsWhenKeyed ==
    (inten.src = "keyed" /\ ~StartsWithImage(inten.name)) =>
        \A k \in 1..Len(inten_rows) :
            inten_rows[k].row.Nuclei_Count = inten.counts[inten_rows[k].sidx]

-----------------------------------------------------------------------------
(* Driving the two runs *)

MaxSplit == 4      \* at most this many series, frames or slices

SplitModes == {"series", "time", "z"}

RunOrders == {<<"first", "second">>, <<"second", "first">>}

InitSplit ==
    /\ \E m \in SplitModes, n \in 1..MaxSplit, o \in RunOrders :
          split = [SPLIT_BY |-> m, n |-> n, runs |-> o]
    /\ sp_run = 1
    /\ sp_pc = "select"
    /\ sp_sel = <<>>
    /\ sp_processed = [first |-> <<>>, second |-> <<>>]
    /\ RescaleIdle
    /\ IterIdle
    /\ FilterIdle
    /\ BatchIdle
    /\ ScaleIdle
    /\ MeasureIdle
    /\ MarkerIdle
    /\ MorphIdle
    /\ ChannelIdle
    /\ CsvIdle
    /\ ThresholdIdle
    /\ PrepIdle
    /\ ReleaseIdle
    /\ SeriesIdle
    /\ AreaIdle
    /\ IntensityIdle

\* A run opens the file and selects its series: half of them in the
\* series mode, the one series of the file in the other modes.
SelectSeries ==
    /\ sp_pc = "select"
    /\ sp_sel' = IF split.SPLIT_BY = "series"
                 THEN series_selection(split.n, split.runs[sp_run])
                 ELSE series_selection(1, split.runs[sp_run])
    /\ sp_pc' = "process"
    /\ UNCHANGED <<split, sp_run, sp_processed>>
    /\ UNCHANGED <<rescaleVars, iterVars, filterVars, batchVars, scaleVars,
                   measureVars, markerVars, morphVars, channelVars, csvVars,
                   thresholdVars, prepVars, releaseVars, seriesVars, areaVars,
                   intensityVars>>

\* One pass of "for sidx in sel": the series is processed, in the time
\* and z modes the duplicate of the selected frames or slices.
ProcessSelected ==
    /\ sp_pc = "process"
    /\ sp_sel # <<>>
    /\ LET which == split.runs[sp_run]
           done == IF split.SPLIT_BY = "series" THEN <<Head(sp_sel) + 1>>
                   ELSE LET fr == frames_selection(split.n, which)
                        IN  SelectSeq([i \in 1..split.n |-> i],
                                      LAMBDA i : i \in fr)
       IN  sp_processed' =
               [sp_processed EXCEPT ![which] = sp_processed[which] \o done]
    /\ sp_sel' = Tail(sp_sel)
    /\ UNCHANGED <<split, sp_run, sp_pc>>
    /\ UNCHANGED <<rescaleVars, iterVars, filterVars, batchVars, scaleVars,
                   measureVars, markerVars, morphVars, channelVars, csvVars,
                   thresholdVars, prepVars, releaseVars, seriesVars, areaVars,
                   intensityVars>>

\* The run ends; the other one starts, or both are done.
EndRun ==
    /\ sp_pc = "process"
    /\ sp_sel = <<>>
    /\ IF sp_run < Len(split.runs)
       THEN /\ sp_run' = sp_run + 1
            /\ sp_pc' = "select"
       ELSE /\ sp_pc' = "done"
            /\ UNCHANGED sp_run
    /\ UNCHANGED <<split, sp_sel, sp_processed>>
    /\ UNCHANGED <<rescaleVars, iterVars, filterVars, batchVars, scaleVars,
                   measureVars, markerVars, morphVars, channelVars, csvVars,
                   thresholdVars, prepVars, releaseVars, seriesVars, areaVars,
                   intensityVars>>

NextSplit ==
    \/ SelectSeries
    \/ ProcessSelected
    \/ EndRun

SpecSplit == InitSplit /\ [][NextSplit]_vars

-----------------------------------------------------------------------------
(* Claims on the two runs *)

\* How often the run processed the series (frame, slice) u.
TimesIn(which, u) ==
    Cardinality({k \in 1..Len(sp_processed[which]) :
                    sp_processed[which][k] = u})

\* C30 as the specification states it: after the 'first' and the 'second'
\* run, every series (frame, slice) was processed in exactly one of the
\* two runs, for every count from 1 on.
C30_AsStated ==
    sp_pc = "done" =>
        \A u \in 1..split.n : TimesIn("first", u) + TimesIn("second", u) = 1

\* C30: for a count of at least 2 every series (frame, slice) is
\* processed in exactly one of the two runs, the first half (count div 2
\* of them) in 'first' and the rest in 'second'; a count of 1 is not
\* split, and the one series (frame, slice) is processed by both runs.
C30_HalvesPartition ==
    sp_pc = "done" =>
        \A u \in 1..split.n :
            IF split.n >= 2
            THEN /\ TimesIn("first", u) = (IF u <= split.n \div 2 THEN 1 ELSE 0)
                 /\ TimesIn("second", u) = (IF u <= split.n \div 2 THEN 0 ELSE 1)
            ELSE /\ TimesIn("first", u) = 1
                 /\ TimesIn("second", u) = 1

\* Three series: 'first' processed the first of them, 'second' the other
\* two.
C30_Witness ==
    /\ sp_pc = "done"
    /\ split.SPLIT_BY = "series"
    /\ split.n = 3
    /\ sp_processed.first = <<1>>
    /\ sp_processed.second = <<2, 3>>

\* One frame: both runs processed it.
C30_WitnessOne ==
    /\ sp_pc = "done"
    /\ split.SPLIT_BY = "time"
    /\ split.n = 1
    /\ sp_processed.first = <<1>>
    /\ sp_processed.second = <<1>>

=============================================================================
